---------------------------- MODULE Spec2Model ----------------------------
(***************************************************************************)
(* Runtime entries of dart/runtime/vm/code_generator.cc as a state         *)
(* machine.  These specifications share the module:                        *)
(*   TypeSpec  - the type engine: Instanceof, TypeCheck and the            *)
(*               subtype-test cache (UpdateTypeTestCache,                  *)
(*               OptimizeTypeArguments);                                   *)
(*   ICSpec    - the IC engine: the inline-cache miss handlers, the        *)
(*               megamorphic cache miss handler, InstanceFunctionLookup    *)
(*               and PatchStaticCall;                                      *)
(*   CodeSpec  - the patcher front-end and the optimizer: PatchStaticCall, *)
(*               FixCallersTarget, OptimizeInvokedFunction, StackOverflow; *)
(*   PollSpec  - the interrupt poll of StackOverflow;                      *)
(*   DeoptSpec - the deoptimizer: DeoptimizeAt, DeoptimizeAll,             *)
(*               DeoptimizeIfOwner and the three phases of the             *)
(*               deoptimization stub (DeoptFairSpec adds fairness).        *)
(* Each specification leaves the other subsystems' variables untouched.    *)
(***************************************************************************)
EXTENDS Integers, Sequences, FiniteSets, TLC

VARIABLES
  type_arguments,            \* instance -> its type-argument vector object
  canonical_type_arguments,  \* structural value -> canonical vector object
  cache,                     \* the SubtypeTestCache: a sequence of checks
  ic_data,                   \* the ICData of the call site
  function_code,             \* function -> its current code (NoCode if none)
  megamorphic_cache_table,   \* the isolate's table: NoCache or cid -> target
  call_site,                 \* caller pc -> address installed at the call
  static_call_target_code,   \* caller pc -> code in the static-call table
  usage_counter,             \* function -> its usage counter
  deoptimization_counter,    \* function -> its deoptimization counter
  is_optimizable,            \* function -> its optimizability flag
  debugger,                  \* the isolate's debugger: stepping, breakpoints
  frame_pc,                  \* the pc of the top Dart frame
  flags,                     \* FLAG_use_osr and FLAG_optimization_filter
  interrupts,                \* the isolate's pending interrupt bits
  stack,                     \* the Dart frames, topmost first: code and pc
  is_alive,                  \* code -> its alive flag
  inserted_call,             \* pc -> target of the call inserted there, or 0
  deopt_context,             \* the isolate's DeoptContext
  stub,                      \* position of the deoptimization stub
  walk,                      \* the frame iterator of a running stack walk
  ret                        \* what the last runtime entry did

vars == <<type_arguments, canonical_type_arguments, cache, ic_data,
          function_code, megamorphic_cache_table, call_site,
          static_call_target_code, usage_counter,
          deoptimization_counter, is_optimizable, debugger, frame_pc, flags,
          interrupts, stack, is_alive, inserted_call, deopt_context, stub,
          walk, ret>>

type_vars == <<type_arguments, canonical_type_arguments, cache>>
ic_vars == <<ic_data, function_code, megamorphic_cache_table, call_site,
             static_call_target_code>>
opt_vars == <<usage_counter, deoptimization_counter,
              is_optimizable, debugger, frame_pc, flags, interrupts>>
deopt_vars == <<stack, is_alive, inserted_call, deopt_context, stub, walk>>

-----------------------------------------------------------------------------
(* Bounds and flags                                                        *)

\* FLAG_max_subtype_cache_entries (a flag, 100 by default), kept small.
max_subtype_cache_entries == 2

\* Largest number of checks an ICData is grown to.
MaxChecks == 2

-----------------------------------------------------------------------------
(* Objects of the type engine                                              *)

NullTA == 0
NullInstance == 0

\* Type-argument vector objects, by identity.  1 and 2 are distinct flat
\* vectors with the same elements; 3 and 4 are InstantiatedTypeArguments
\* pairs: 3 instantiates to the flat vector 2, 4 to the pair 3.
TypeArgObjects == {1, 2, 3, 4}

IsInstantiatedTypeArguments(t) == t \in {3, 4}

IsTypeArguments(t) == t \in {1, 2}

\* uninstantiated.InstantiateFrom(instantiator) of the pair t.
InstantiateFrom(t) == IF t = 4 THEN 3 ELSE 2

\* The elements of a flat vector (structural value).
TypeVector(t) == "A"

TypeVectors == {"A"}

IsCanonical(t, canon) == IsTypeArguments(t) /\ canon[TypeVector(t)] = t

\* AbstractTypeArguments::Canonicalize: the representative of the vector's
\* structural class; the vector itself becomes it when there is none yet.
Canonicalize(t, canon) ==
  IF canon[TypeVector(t)] # NullTA
  THEN [raw |-> canon[TypeVector(t)], canon |-> canon]
  ELSE [raw |-> t, canon |-> [canon EXCEPT ![TypeVector(t)] = t]]

\* Instance 1 is of a generic class (cid 1), instance 2 of a non-generic
\* class (cid 2).
Instances == {1, 2}

GenericInstances == {1}

GetClassId(i) == i

NumTypeArguments(cid) == IF cid = 1 THEN 1 ELSE IF cid = 3 THEN 2 ELSE 0

-----------------------------------------------------------------------------
(* Type engine                                                             *)

RECURSIVE InstantiateLoop(_)
\* The do-while of OptimizeTypeArguments: instantiate until no longer lazy.
InstantiateLoop(t) ==
  LET r == InstantiateFrom(t)
  IN  IF IsInstantiatedTypeArguments(r) THEN InstantiateLoop(r) ELSE r

\* Mutant: the instantiated vector is stored without being canonicalized.
OptimizeTypeArguments_NoCanonicalize(instance, ta, canon) ==
  IF NumTypeArguments(GetClassId(instance)) = 0 \/ ta[instance] = NullTA
  THEN [replaced |-> FALSE, ta |-> ta, canon |-> canon]
  ELSE IF IsInstantiatedTypeArguments(ta[instance])
  THEN [replaced |-> TRUE,
        ta |-> [ta EXCEPT ![instance] = InstantiateLoop(ta[instance])],
        canon |-> canon]
  ELSE IF ~IsCanonical(ta[instance], canon)
  THEN LET c == Canonicalize(ta[instance], canon)
       IN  [replaced |-> TRUE,
            ta |-> [ta EXCEPT ![instance] = c.raw],
            canon |-> c.canon]
  ELSE [replaced |-> FALSE, ta |-> ta, canon |-> canon]

\* OptimizeTypeArguments(instance) on the heap (ta, canon): the heap after
\* the call and the value returned (replaced).
OptimizeTypeArguments(instance, ta, canon) ==
  IF NumTypeArguments(GetClassId(instance)) = 0
  THEN [replaced |-> FALSE, ta |-> ta, canon |-> canon]
  ELSE IF ta[instance] = NullTA
  THEN [replaced |-> FALSE, ta |-> ta, canon |-> canon]
  ELSE IF IsInstantiatedTypeArguments(ta[instance])
  THEN LET c == Canonicalize(InstantiateLoop(ta[instance]), canon)
       IN  [replaced |-> TRUE,
            ta |-> [ta EXCEPT ![instance] = c.raw],
            canon |-> c.canon]
  ELSE IF ~IsCanonical(ta[instance], canon)
  THEN LET c == Canonicalize(ta[instance], canon)
       IN  [replaced |-> TRUE,
            ta |-> [ta EXCEPT ![instance] = c.raw],
            canon |-> c.canon]
  ELSE [replaced |-> FALSE, ta |-> ta, canon |-> canon]

\* if (new_cache.IsNull()) return;
SkipsUpdate(new_cache_is_null) == new_cache_is_null

\* Mutant: the limit is tested with > instead of >=.
CacheIsFull_OffByOne(len) == len > max_subtype_cache_entries

\* if (len >= FLAG_max_subtype_cache_entries) return;
CacheIsFull(len) == len >= max_subtype_cache_entries

\* Mutant: the scan stops one check early.
HasCheck_SkipsLast(c, cid, instance_ta, instantiator_ta) ==
  \E i \in 1..(Len(c) - 1) :
     /\ c[i].instance_class_id = cid
     /\ c[i].instance_type_arguments = instance_ta
     /\ c[i].instantiator_type_arguments = instantiator_ta

\* The linear scan of the cache: a check with the same class id and the
\* same (by identity) instance and instantiator type arguments.
HasCheck(c, cid, instance_ta, instantiator_ta) ==
  \E i \in 1..Len(c) :
     /\ c[i].instance_class_id = cid
     /\ c[i].instance_type_arguments = instance_ta
     /\ c[i].instantiator_type_arguments = instantiator_ta

\* Mutant: the check is added whatever the instantiator type arguments.
MayAddCheck_Always(instantiator_ta) == TRUE

\* if (!instantiator_type_arguments.IsInstantiatedTypeArguments()) AddCheck
MayAddCheck(instantiator_ta) == ~IsInstantiatedTypeArguments(instantiator_ta)

\* SubtypeTestCache::AddCheck appends one 4-tuple.
AddCheck(c, cid, instance_ta, instantiator_ta, result) ==
  Append(c, [instance_class_id |-> cid,
             instance_type_arguments |-> instance_ta,
             instantiator_type_arguments |-> instantiator_ta,
             result |-> result])

\* Mutant: only the instantiator's vector is optimized, not the instance's.
CanonicalizeKeys_SkipsInstance(instance, instantiator, incoming, ta, canon) ==
  LET o2 == IF instantiator # NullInstance
            THEN OptimizeTypeArguments(instantiator, ta, canon)
            ELSE [replaced |-> FALSE, ta |-> ta, canon |-> canon]
  IN  [ta |-> o2.ta, canon |-> o2.canon,
       instance_type_arguments |->
          IF NumTypeArguments(GetClassId(instance)) > 0
          THEN o2.ta[instance] ELSE NullTA,
       instantiator_type_arguments |->
          IF instantiator # NullInstance
          THEN o2.ta[instantiator] ELSE incoming,
       type_arguments_replaced |-> o2.replaced]

\* The canonicalization prefix of UpdateTypeTestCache: the heap after it
\* and the two vectors used as keys.
CanonicalizeKeys(instance, instantiator, incoming, ta, canon) ==
  LET o1 == IF NumTypeArguments(GetClassId(instance)) > 0
            THEN OptimizeTypeArguments(instance, ta, canon)
            ELSE [replaced |-> FALSE, ta |-> ta, canon |-> canon]
      instance_ta == IF NumTypeArguments(GetClassId(instance)) > 0
                     THEN o1.ta[instance] ELSE NullTA
      o2 == IF instantiator # NullInstance
            THEN OptimizeTypeArguments(instantiator, o1.ta, o1.canon)
            ELSE [replaced |-> FALSE, ta |-> o1.ta, canon |-> o1.canon]
      instantiator_ta == IF instantiator # NullInstance
                         THEN o2.ta[instantiator] ELSE incoming
  IN  [ta |-> o2.ta, canon |-> o2.canon,
       instance_type_arguments |-> instance_ta,
       instantiator_type_arguments |-> instantiator_ta,
       type_arguments_replaced |-> o1.replaced \/ o2.replaced]

\* UpdateTypeTestCache(instance, type, instantiator, incoming, result,
\* new_cache): the heap and the cache after the call.
UpdateTypeTestCache(instance, instantiator, incoming, result, is_null, ta, canon, c) ==
  IF SkipsUpdate(is_null)
  THEN [ta |-> ta, canon |-> canon, cache |-> c]
  ELSE LET k == CanonicalizeKeys(instance, instantiator, incoming, ta, canon)
           cid == GetClassId(instance)
       IN  IF CacheIsFull(Len(c))
           THEN [ta |-> k.ta, canon |-> k.canon, cache |-> c]
           ELSE IF HasCheck(c, cid, k.instance_type_arguments,
                            k.instantiator_type_arguments)
           THEN [ta |-> k.ta, canon |-> k.canon, cache |-> c]
           ELSE IF MayAddCheck(k.instantiator_type_arguments)
           THEN [ta |-> k.ta, canon |-> k.canon,
                 cache |-> AddCheck(c, cid, k.instance_type_arguments,
                                    k.instantiator_type_arguments, result)]
           ELSE [ta |-> k.ta, canon |-> k.canon, cache |-> c]

\* Names carried by a type error.
SymbolsEmpty == "Empty"

UserVisibleName(cid) == <<"type", cid>>

\* The name of the destination type: its own name when instantiated, the
\* name of its instantiation from the instantiator type arguments otherwise.
DstTypeName(dst_instantiated, incoming) ==
  IF dst_instantiated THEN <<"dst">> ELSE <<"dst", incoming # NullTA>>

\* Exceptions::CreateAndThrowTypeError(location, src, dst, name, bound_msg)
CreateAndThrowTypeError(src_type_name, dst_type_name, dst_name, bound_msg) ==
  [src_type_name |-> src_type_name, dst_type_name |-> dst_type_name,
   dst_name |-> dst_name, bound_error_message |-> bound_msg]

\* The bound error message: null unless IsInstanceOf produced a bound error.
BoundErrorMessage(bound_error) == IF bound_error THEN "bound error" ELSE "null"

\* The instantiator the compiled code passes is null or an instance of a
\* generic class.
Instantiators == {NullInstance} \cup GenericInstances

\* The instantiator type arguments passed with it: those of the
\* instantiator object when there is one, any vector (or null) otherwise.
IncomingFor(instantiator) ==
  IF instantiator # NullInstance
  THEN {type_arguments[instantiator]}
  ELSE {NullTA, 1, 2, 3}

\* The structure of a vector as the subtype test sees it: null (raw) or
\* its elements (those of its instantiation for a lazy pair).
Elements(t) == IF t = NullTA THEN "null" ELSE "A"

\* instance.IsInstanceOf(type, instantiator_type_arguments, &bound_error)
\* for the type of the call site: a function of the instance's class and
\* of the structure of both vectors.  The table covers the four outcomes.
IsInstanceOf(instance, instance_ta, incoming) ==
  LET x == <<GetClassId(instance), Elements(instance_ta), Elements(incoming)>>
  IN  IF x = <<1, "A", "A">>       THEN [result |-> TRUE,  bound_error |-> FALSE]
      ELSE IF x = <<1, "A", "null">>    THEN [result |-> FALSE, bound_error |-> FALSE]
      ELSE IF x = <<1, "null", "A">>    THEN [result |-> TRUE,  bound_error |-> TRUE]
      ELSE IF x = <<1, "null", "null">> THEN [result |-> FALSE, bound_error |-> TRUE]
      ELSE IF x = <<2, "null", "A">>    THEN [result |-> FALSE, bound_error |-> FALSE]
      ELSE [result |-> TRUE, bound_error |-> FALSE]

\* The arguments of a type test, as ret keeps them.
Call(op, instance, instantiator, incoming, cache_is_null) ==
  [op |-> op, instance |-> instance, instantiator |-> instantiator,
   incoming |-> incoming, cache_is_null |-> cache_is_null]

\* What ret keeps of the state on entry: the vector of the tested instance
\* and the number of checks of the cache.
OnEntry(instance) ==
  [instance_type_arguments |-> type_arguments[instance],
   number_of_checks |-> Len(cache)]

\* Mutant: every failed test throws, as in TypeCheck.
InstanceofThrows_EveryFailure(is_instance_of, bound_error) == ~is_instance_of

\* Whether Instanceof throws: only a failed test with a bound error.
InstanceofThrows(is_instance_of, bound_error) ==
  ~is_instance_of /\ bound_error

\* DEFINE_RUNTIME_ENTRY(Instanceof, 5)
Instanceof ==
  \E instance \in Instances, instantiator \in Instantiators,
     cache_is_null \in BOOLEAN :
    \E incoming \in IncomingFor(instantiator) :
      LET t == IsInstanceOf(instance, type_arguments[instance], incoming)
          is_instance_of == t.result
          bound_error == t.bound_error
      IN
      IF InstanceofThrows(is_instance_of, bound_error)
      THEN /\ ret' = [call |-> Call("Instanceof", instance, instantiator,
                                 incoming, cache_is_null),
                      entry |-> OnEntry(instance),
                      is_instance_of |-> is_instance_of,
                      bound_error |-> bound_error,
                      outcome |-> "throw",
                      error |-> CreateAndThrowTypeError(SymbolsEmpty,
                                   SymbolsEmpty, SymbolsEmpty,
                                   BoundErrorMessage(bound_error))]
           /\ UNCHANGED type_vars
      ELSE LET u == UpdateTypeTestCache(instance, instantiator, incoming,
                       is_instance_of, cache_is_null, type_arguments,
                       canonical_type_arguments, cache)
           IN  /\ type_arguments' = u.ta
               /\ canonical_type_arguments' = u.canon
               /\ cache' = u.cache
               /\ ret' = [call |-> Call("Instanceof", instance, instantiator,
                                 incoming, cache_is_null),
                      entry |-> OnEntry(instance),
                          is_instance_of |-> is_instance_of,
                          bound_error |-> bound_error,
                          outcome |-> "return", value |-> is_instance_of]

\* Mutant: the test of the result is inverted.
TypeCheckThrows_Inverted(is_instance_of) == is_instance_of

\* Whether TypeCheck throws: every failed test.
TypeCheckThrows(is_instance_of) == ~is_instance_of

DstNames == {"x", "y"}

\* Whether dst_type is instantiated: it is when the call site passes no
\* instantiator type arguments.
DstTypeIsInstantiated(instantiator, incoming) ==
  instantiator = NullInstance /\ incoming = NullTA

\* DEFINE_RUNTIME_ENTRY(TypeCheck, 6)
TypeCheck ==
  \E src_instance \in Instances, dst_instantiator \in Instantiators,
     cache_is_null \in BOOLEAN, dst_name \in DstNames :
    \E incoming \in IncomingFor(dst_instantiator) :
      LET t == IsInstanceOf(src_instance, type_arguments[src_instance],
                            incoming)
          is_instance_of == t.result
          bound_error == t.bound_error
      IN
      IF TypeCheckThrows(is_instance_of)
      THEN /\ ret' = [call |-> Call("TypeCheck", src_instance, dst_instantiator,
                                 incoming, cache_is_null),
                      dst_name |-> dst_name,
                      entry |-> OnEntry(src_instance),
                      is_instance_of |-> is_instance_of,
                      bound_error |-> bound_error,
                      outcome |-> "throw",
                      error |-> CreateAndThrowTypeError(
                                   UserVisibleName(GetClassId(src_instance)),
                                   DstTypeName(DstTypeIsInstantiated(
                                      dst_instantiator, incoming), incoming),
                                   dst_name,
                                   BoundErrorMessage(bound_error))]
           /\ UNCHANGED type_vars
      ELSE LET u == UpdateTypeTestCache(src_instance, dst_instantiator,
                       incoming, TRUE, cache_is_null, type_arguments,
                       canonical_type_arguments, cache)
           IN  /\ type_arguments' = u.ta
               /\ canonical_type_arguments' = u.canon
               /\ cache' = u.cache
               /\ ret' = [call |-> Call("TypeCheck", src_instance, dst_instantiator,
                                 incoming, cache_is_null),
                      dst_name |-> dst_name,
                      entry |-> OnEntry(src_instance),
                          is_instance_of |-> is_instance_of,
                          bound_error |-> bound_error,
                          outcome |-> "return", value |-> src_instance]

-----------------------------------------------------------------------------
(* Objects of the IC engine                                                *)

NullFunction == 0
NoCode == 0

\* Function 1 is an instance method, function 2 the target of the static
\* calls.
Functions == {1, 2}

\* Receiver classes: 1 and 2 resolve the call to function 1, 3 has only a
\* getter of that name, 4 has neither, 5 has only a method extractor as the
\* getter of that name.
ReceiverCids == {1, 2, 3, 4, 5}

\* Classes of the arguments after the receiver.
ArgCids == {1, 2}

\* The class id an ICData of a static call is prepopulated with.
kObjectCid == 0

\* Code objects: the unoptimized code of a function and two optimized codes
\* of it (an optimizing compilation makes a new code object).
UnoptimizedCodeOf(f) == 3 * f - 2

OptimizedCodeOf(f) == 3 * f - 1

ReoptimizedCodeOf(f) == 3 * f

\* code.is_optimized()
IsOptimizedCode(code) == code # 0 /\ code % 3 # 1

\* code.function()
FunctionOf(code) == (code + 2) \div 3

\* code.EntryPoint()
EntryPoint(code) == 16 * code

\* The stub a static call targets until it is patched.
CallStaticFunctionStubEntry == 8

\* Caller pcs of static calls in the optimized caller frame.
Pcs == {1}

\* caller_code.GetStaticCallTargetFunctionAt(pc)
GetStaticCallTargetFunctionAt(pc) == 2

\* Resolver::ResolveDynamic(receiver, name, descriptor)
ResolveDynamic(receiver_cid) ==
  IF receiver_cid \in {1, 2} THEN 1 ELSE NullFunction

\* Resolver::ResolveDynamicForReceiverClass(cls, name, descriptor)
ResolveDynamicForReceiverClass(cid) == ResolveDynamic(cid)

\* Resolver::ResolveDynamicForReceiverClass(cls, getter_name, args_desc)
ResolveGetter(cid) ==
  IF cid = 3 THEN "getter"
  ELSE IF cid = 5 THEN "method extractor"
  ELSE "null"

\* The getter of the target's name on the class, when it has one that is
\* no method extractor.
HasFieldGetter(cid) == ResolveGetter(cid) \notin {"null", "method extractor"}

\* receiver_class.GetInvocationDispatcher(name, descriptor, kind)
kInvokeFieldDispatcher == 10

kNoSuchMethodDispatcher == 20

GetInvocationDispatcher(cid, kind) == kind + cid

HasCode(f, fc) == fc[f] # NoCode

\* Errors a compilation can fail with.
CompileErrors == {"error1", "error2"}

CompileOutcomes == {"ok"} \cup CompileErrors

\* Compiler::CompileFunction(function): on success the function gets its
\* unoptimized code and null is returned, else the error.
CompileFunction(f, fc, outcome) ==
  IF outcome = "ok"
  THEN [fc |-> [fc EXCEPT ![f] = UnoptimizedCodeOf(f)], error |-> "null"]
  ELSE [fc |-> fc, error |-> outcome]

\* Exceptions::PropagateError(error): the error thrown.
PropagateError(error) == error

\* ic_data.AddReceiverCheck(cid, target)
AddReceiverCheck(ic, cid, target) ==
  [ic EXCEPT !.checks = Append(@, [class_ids |-> <<cid>>, target |-> target])]

\* ic_data.AddCheck(class_ids, target)
ICAddCheck(ic, class_ids, target) ==
  [ic EXCEPT !.checks = Append(@, [class_ids |-> class_ids,
                                   target |-> target])]

\* ic_data.GetTargetForReceiverClassId(cid)
GetTargetForReceiverClassId(ic, cid) ==
  IF \E i \in 1..Len(ic.checks) : ic.checks[i].class_ids[1] = cid
  THEN ic.checks[CHOOSE i \in 1..Len(ic.checks) :
                    /\ ic.checks[i].class_ids[1] = cid
                    /\ \A j \in 1..(i - 1) :
                          ic.checks[j].class_ids[1] # cid].target
  ELSE NullFunction

\* The lookup of the inline-cache stub: a check for these class ids.
ICLookupHits(ic, class_ids) ==
  \E i \in 1..Len(ic.checks) : ic.checks[i].class_ids = class_ids

-----------------------------------------------------------------------------
(* IC engine                                                               *)

\* Mutant: the target's current code is returned without compiling it.
ResolveCompileInstanceCallTarget_NoCompile(receiver_cid, fc, outcome) ==
  LET function == ResolveDynamic(receiver_cid)
  IN  IF function = NullFunction
      THEN [code |-> NoCode, fc |-> fc, error |-> "null",
            compile_error |-> "none"]
      ELSE [code |-> fc[function], fc |-> fc, error |-> "null",
            compile_error |-> "none"]

\* ResolveCompileInstanceCallTarget(receiver, ic_data): the code returned
\* (NoCode for Code::null()), the functions' code afterwards, the error
\* propagated ("null" if none) and what CompileFunction returned ("none" if
\* it was not called).
ResolveCompileInstanceCallTarget(receiver_cid, fc, outcome) ==
  LET function == ResolveDynamic(receiver_cid)
  IN  IF function = NullFunction
      THEN [code |-> NoCode, fc |-> fc, error |-> "null",
            compile_error |-> "none"]
      ELSE IF ~HasCode(function, fc)
      THEN LET c == CompileFunction(function, fc, outcome)
           IN  IF c.error # "null"
               THEN [code |-> NoCode, fc |-> c.fc,
                     error |-> PropagateError(c.error),
                     compile_error |-> c.error]
               ELSE [code |-> c.fc[function], fc |-> c.fc, error |-> "null",
                     compile_error |-> c.error]
      ELSE [code |-> fc[function], fc |-> fc, error |-> "null",
            compile_error |-> "none"]

\* The update of the IC data in InlineCacheMissHandler.
AddMissCheck(ic, class_ids, target_function) ==
  IF Len(class_ids) = 1
  THEN AddReceiverCheck(ic, class_ids[1], target_function)
  ELSE ICAddCheck(ic, class_ids, target_function)

\* Mutant: no early return when the target code is null.
InlineCacheMissHandler_NoNullReturn(class_ids, ic, fc, outcome) ==
  LET r == ResolveCompileInstanceCallTarget(class_ids[1], fc, outcome)
  IN  IF r.error # "null"
      THEN [outcome |-> "throw", error |-> r.error, ic |-> ic, fc |-> r.fc,
            compile_error |-> r.compile_error]
      ELSE [outcome |-> "return", value |-> FunctionOf(r.code),
            ic |-> AddMissCheck(ic, class_ids, FunctionOf(r.code)),
            fc |-> r.fc, compile_error |-> r.compile_error]

\* Mutant: the check is added before the compilation error is looked at.
InlineCacheMissHandler_AddsFirst(class_ids, ic, fc, outcome) ==
  LET r == ResolveCompileInstanceCallTarget(class_ids[1], fc, outcome)
      added == AddMissCheck(ic, class_ids, ResolveDynamic(class_ids[1]))
  IN  IF r.error # "null"
      THEN [outcome |-> "throw", error |-> r.error, ic |-> added,
            fc |-> r.fc, compile_error |-> r.compile_error]
      ELSE IF r.code = NoCode
      THEN [outcome |-> "return", value |-> NullFunction, ic |-> ic,
            fc |-> r.fc, compile_error |-> r.compile_error]
      ELSE [outcome |-> "return", value |-> FunctionOf(r.code),
            ic |-> added, fc |-> r.fc, compile_error |-> r.compile_error]

\* InlineCacheMissHandler(args, ic_data): what it returns or throws, and
\* the IC data and the functions' code afterwards.
InlineCacheMissHandler(class_ids, ic, fc, outcome) ==
  LET r == ResolveCompileInstanceCallTarget(class_ids[1], fc, outcome)
  IN  IF r.error # "null"
      THEN [outcome |-> "throw", error |-> r.error, ic |-> ic, fc |-> r.fc,
            compile_error |-> r.compile_error]
      ELSE IF r.code = NoCode
      THEN [outcome |-> "return", value |-> NullFunction, ic |-> ic,
            fc |-> r.fc, compile_error |-> r.compile_error]
      ELSE [outcome |-> "return", value |-> FunctionOf(r.code),
            ic |-> AddMissCheck(ic, class_ids, FunctionOf(r.code)),
            fc |-> r.fc, compile_error |-> r.compile_error]

\* The classes the first argument after a receiver of class r is drawn
\* from: both for a receiver without method or getter, one for the others.
ArgCidsOf(r) == IF r = 4 THEN ArgCids ELSE {1}

\* The class ids of the arguments of an arity-n miss.
ArgClassIds(n) ==
  IF n = 1 THEN { <<r>> : r \in ReceiverCids }
  ELSE IF n = 2
  THEN { v \in ReceiverCids \X ArgCids : v[2] \in ArgCidsOf(v[1]) }
  ELSE { v \in ReceiverCids \X ArgCids \X {1} : v[2] \in ArgCidsOf(v[1]) }

\* The runtime entry of arity n runs on a miss of the stub of a call site
\* whose IC data tests n arguments.
MissAt(n, class_ids) ==
  /\ ic_data.kind = "instance"
  /\ ic_data.num_args_tested = n
  /\ ~ICLookupHits(ic_data, class_ids)
  /\ Len(ic_data.checks) < MaxChecks

InlineCacheMiss(op, n) ==
  \E class_ids \in ArgClassIds(n), outcome \in CompileOutcomes :
    /\ MissAt(n, class_ids)
    /\ LET h == InlineCacheMissHandler(class_ids, ic_data, function_code,
                                       outcome)
       IN  /\ ic_data' = h.ic
           /\ function_code' = h.fc
           /\ ret' = IF h.outcome = "throw"
                     THEN [call |-> [op |-> op, class_ids |-> class_ids],
                           outcome |-> "throw", error |-> h.error,
                           compile_error |-> h.compile_error]
                     ELSE [call |-> [op |-> op, class_ids |-> class_ids],
                           outcome |-> "return", value |-> h.value,
                           compile_error |-> h.compile_error]
    /\ UNCHANGED <<megamorphic_cache_table, call_site,
                   static_call_target_code>>

\* DEFINE_RUNTIME_ENTRY(InlineCacheMissHandlerOneArg, 2)
InlineCacheMissHandlerOneArg == InlineCacheMiss("InlineCacheMissHandlerOneArg", 1)

\* DEFINE_RUNTIME_ENTRY(InlineCacheMissHandlerTwoArgs, 3)
InlineCacheMissHandlerTwoArgs == InlineCacheMiss("InlineCacheMissHandlerTwoArgs", 2)

\* DEFINE_RUNTIME_ENTRY(InlineCacheMissHandlerThreeArgs, 4)
InlineCacheMissHandlerThreeArgs == InlineCacheMiss("InlineCacheMissHandlerThreeArgs", 3)


\* DEFINE_RUNTIME_ENTRY(StaticCallMissHandlerTwoArgs, 3): the IC data of a
\* static call is prepopulated with the statically known target.
StaticCallMissHandlerTwoArgs ==
  \E arg0 \in ReceiverCids, arg1 \in ArgCids, outcome \in CompileOutcomes :
    /\ arg1 \in ArgCidsOf(arg0)
    /\ ic_data.kind = "static"
    /\ Len(ic_data.checks) > 0
    /\ ~ICLookupHits(ic_data, <<arg0, arg1>>)
    /\ Len(ic_data.checks) < MaxChecks
    /\ LET target == ic_data.checks[1].target
           call == [op |-> "StaticCallMissHandlerTwoArgs",
                    class_ids |-> <<arg0, arg1>>]
           c == IF ~HasCode(target, function_code)
                THEN CompileFunction(target, function_code, outcome)
                ELSE [fc |-> function_code, error |-> "none"]
       IN  IF c.error \notin {"null", "none"}
           THEN /\ ret' = [call |-> call, outcome |-> "throw",
                           error |-> PropagateError(c.error),
                           compile_error |-> c.error]
                /\ function_code' = c.fc
                /\ UNCHANGED ic_data
           ELSE /\ ic_data' = ICAddCheck(ic_data, <<arg0, arg1>>, target)
                /\ function_code' = c.fc
                /\ ret' = [call |-> call, outcome |-> "return",
                           value |-> target,
                           compile_error |-> c.error]
    /\ UNCHANGED <<megamorphic_cache_table, call_site,
                   static_call_target_code>>

\* isolate->megamorphic_cache_table()->Lookup(name, descriptor): the cache
\* of (name, descriptor), constructed empty when the table has none.
MegamorphicLookup(table) ==
  IF table.exists THEN table ELSE [exists |-> TRUE, entries |-> {}]

\* cache.EnsureCapacity(); cache.Insert(class_id, target)
MegamorphicInsert(table, cid, target) ==
  [table EXCEPT !.entries =
      { e \in @ : e[1] # cid } \cup {<<cid, target>>}]

\* Mutant: no return before the insert when the instructions are null.
MegamorphicUpdate_NoNullReturn(table, cid, target) ==
  MegamorphicInsert(table, cid, target)

\* The update of the cache in MegamorphicCacheMissHandler: none when the
\* instructions to return are null.
MegamorphicUpdate(table, cid, target) ==
  IF target = NullFunction THEN table
  ELSE MegamorphicInsert(table, cid, target)

\* DEFINE_RUNTIME_ENTRY(MegamorphicCacheMissHandler, 3)
MegamorphicCacheMissHandler ==
  \E cid \in ReceiverCids, outcome \in CompileOutcomes :
    /\ ic_data.kind = "instance"
    /\ LET table == MegamorphicLookup(megamorphic_cache_table)
           target == ResolveDynamicForReceiverClass(cid)
           call == [op |-> "MegamorphicCacheMissHandler",
                    class_ids |-> <<cid>>]
           compiles == target # NullFunction /\ ~HasCode(target, function_code)
           c == IF compiles
                THEN CompileFunction(target, function_code, outcome)
                ELSE [fc |-> function_code, error |-> "none"]
       IN  IF c.error \notin {"null", "none"}
           THEN /\ ret' = [call |-> call, outcome |-> "throw",
                           error |-> PropagateError(c.error),
                           compile_error |-> c.error]
                /\ megamorphic_cache_table' = table
                /\ function_code' = c.fc
           ELSE IF target = NullFunction
           THEN /\ ret' = [call |-> call, outcome |-> "return",
                           value |-> NoCode, compile_error |-> c.error]
                /\ megamorphic_cache_table' =
                      MegamorphicUpdate(table, cid, target)
                /\ function_code' = c.fc
           ELSE /\ ret' = [call |-> call, outcome |-> "return",
                           value |-> c.fc[target],
                           compile_error |-> c.error]
                /\ megamorphic_cache_table' =
                      MegamorphicUpdate(table, cid, target)
                /\ function_code' = c.fc
    /\ UNCHANGED <<ic_data, call_site, static_call_target_code>>

\* DEFINE_RUNTIME_ENTRY(UpdateICDataTwoArgs, 4): the equality stub calls it
\* when its own lookup of the two class ids misses; the target resolves.
UpdateICDataTwoArgs ==
  \E receiver \in ReceiverCids, arg1 \in ArgCids :
    /\ arg1 \in ArgCidsOf(receiver)
    /\ MissAt(2, <<receiver, arg1>>)
    /\ ResolveDynamic(receiver) # NullFunction
    /\ ic_data' = ICAddCheck(ic_data, <<receiver, arg1>>,
                             ResolveDynamic(receiver))
    /\ ret' = [call |-> [op |-> "UpdateICDataTwoArgs",
                         class_ids |-> <<receiver, arg1>>],
               outcome |-> "return", value |-> "none",
               compile_error |-> "none"]
    /\ UNCHANGED <<function_code, megamorphic_cache_table, call_site,
                   static_call_target_code>>

\* What DartEntry::InvokeFunction gives back: a value or an error.
InvokeResults == {"value", "unhandled exception"}

IsError(result) == result = "unhandled exception"

\* Mutant: a method extractor is taken for a getter to call through.
ResolveCallThroughGetter_NoExtractorTest(receiver_cid, ic) ==
  IF ResolveGetter(receiver_cid) = "null"
  THEN [found |-> FALSE, ic |-> ic, target |-> NullFunction]
  ELSE LET target_function ==
              GetInvocationDispatcher(receiver_cid, kInvokeFieldDispatcher)
       IN  [found |-> TRUE,
            ic |-> AddReceiverCheck(ic, receiver_cid, target_function),
            target |-> target_function]

\* ResolveCallThroughGetter: whether a getter was found (the value
\* returned) and the IC data afterwards.
ResolveCallThroughGetter(receiver_cid, ic) ==
  IF ~HasFieldGetter(receiver_cid)
  THEN [found |-> FALSE, ic |-> ic, target |-> NullFunction]
  ELSE LET target_function ==
              GetInvocationDispatcher(receiver_cid, kInvokeFieldDispatcher)
       IN  [found |-> TRUE,
            ic |-> AddReceiverCheck(ic, receiver_cid, target_function),
            target |-> target_function]

\* Mutant: the dispatcher check is recorded without looking for a target of
\* the receiver class id.
RecordNoSuchMethodDispatcher_NoGuard(class_ids, ic) ==
  LET receiver_cid == class_ids[1]
      target_function ==
         GetInvocationDispatcher(receiver_cid, kNoSuchMethodDispatcher)
  IN  IF ic.num_args_tested = 1
      THEN AddReceiverCheck(ic, receiver_cid, target_function)
      ELSE ICAddCheck(ic, class_ids, target_function)

\* The noSuchMethod path of InstanceFunctionLookup: the IC data afterwards.
RecordNoSuchMethodDispatcher(class_ids, ic) ==
  LET receiver_cid == class_ids[1]
      target_function ==
         GetInvocationDispatcher(receiver_cid, kNoSuchMethodDispatcher)
  IN  IF ic.num_args_tested = 1
      THEN IF GetTargetForReceiverClassId(ic, receiver_cid) = NullFunction
           THEN AddReceiverCheck(ic, receiver_cid, target_function)
           ELSE ic
      ELSE ICAddCheck(ic, class_ids, target_function)

\* DEFINE_RUNTIME_ENTRY(InstanceFunctionLookup, 4): reached when no
\* instance function resolved for the receiver, after a miss of the
\* inline-cache stub or, where one argument is tested, also after a miss of
\* the megamorphic cache (which holds no dispatchers).
InstanceFunctionLookup ==
  \E n \in 1..3 :
  \E class_ids \in ArgClassIds(n), result \in InvokeResults :
    /\ ic_data.kind = "instance"
    /\ ic_data.num_args_tested = n
    /\ ResolveDynamic(class_ids[1]) = NullFunction
    /\ n > 1 => ~ICLookupHits(ic_data, class_ids)
    /\ Len(ic_data.checks) < MaxChecks
    /\ LET g == ResolveCallThroughGetter(class_ids[1], ic_data)
           call == [op |-> "InstanceFunctionLookup", class_ids |-> class_ids,
                    number_of_checks |-> Len(ic_data.checks)]
           target == IF g.found THEN g.target
                     ELSE GetInvocationDispatcher(class_ids[1],
                                                  kNoSuchMethodDispatcher)
       IN  /\ ic_data' = IF g.found THEN g.ic
                         ELSE RecordNoSuchMethodDispatcher(class_ids, ic_data)
           /\ ret' = IF IsError(result)
                     THEN [call |-> call, outcome |-> "throw",
                           error |-> PropagateError(result),
                           invoked |-> target, compile_error |-> "none"]
                     ELSE [call |-> call, outcome |-> "return",
                           value |-> result, invoked |-> target,
                           compile_error |-> "none"]
    /\ UNCHANGED <<function_code, megamorphic_cache_table, call_site,
                   static_call_target_code>>

\* Mutant: the entry runs whatever the call site targets.
CallsThroughStub_Any(pc) == TRUE

\* The static call at pc targets the stub that calls PatchStaticCall.
CallsThroughStub(pc) == call_site[pc] = CallStaticFunctionStubEntry

\* CodePatcher::PatchStaticCallAt(pc, caller_code, new_entry)
PatchStaticCallAt(sites, pc, entry) == [sites EXCEPT ![pc] = entry]

\* Mutant: the code is recorded for no pc.
SetStaticCallTargetCodeAt_Lost(table, pc, code) == table

\* caller_code.SetStaticCallTargetCodeAt(pc, code)
SetStaticCallTargetCodeAt(table, pc, code) == [table EXCEPT ![pc] = code]

\* DEFINE_RUNTIME_ENTRY(PatchStaticCall, 0): reached through the stub that
\* the static call at the caller's pc targets until it is patched.
PatchStaticCall ==
  \E pc \in Pcs, outcome \in CompileOutcomes :
    /\ CallsThroughStub(pc)
    /\ LET target_function == GetStaticCallTargetFunctionAt(pc)
           call == [op |-> "PatchStaticCall", pc |-> pc]
           compiles == ~HasCode(target_function, function_code)
           c == IF compiles
                THEN CompileFunction(target_function, function_code, outcome)
                ELSE [fc |-> function_code, error |-> "none"]
           target_code == c.fc[target_function]
       IN  IF c.error \notin {"null", "none"}
           THEN /\ ret' = [call |-> call, outcome |-> "throw",
                           error |-> PropagateError(c.error),
                           compile_error |-> c.error]
                /\ function_code' = c.fc
                /\ UNCHANGED <<call_site, static_call_target_code>>
           ELSE IF EntryPoint(target_code) = call_site[pc]
           THEN /\ ret' = [call |-> call, outcome |-> "assert",
                           compile_error |-> c.error]
                /\ function_code' = c.fc
                /\ UNCHANGED <<call_site, static_call_target_code>>
           ELSE /\ call_site' = PatchStaticCallAt(call_site, pc,
                                                  EntryPoint(target_code))
                /\ static_call_target_code' =
                      SetStaticCallTargetCodeAt(static_call_target_code, pc,
                                                target_code)
                /\ function_code' = c.fc
                /\ ret' = [call |-> call, outcome |-> "return",
                           value |-> target_code,
                           compile_error |-> c.error]
    /\ UNCHANGED <<ic_data, megamorphic_cache_table>>

-----------------------------------------------------------------------------
(* Patcher front-end: FixCallersTarget                                     *)

\* target_function.ReattachCode(code)
ReattachCode(fc, f, code) == [fc EXCEPT ![f] = code]

\* The static call at pc targets a code object that is no longer the current
\* code of its function (the function switched code, or its code was
\* detached): calling through it reaches FixCallersTarget.
IsStaleCall(pc) ==
  /\ call_site[pc] # CallStaticFunctionStubEntry
  /\ static_call_target_code[pc] #
        function_code[GetStaticCallTargetFunctionAt(pc)]

\* Mutant: the call site is patched, the table is not updated.
FixTargetTable_Stale(table, fc, pc, f) == table

\* The static-call-target table after FixCallersTarget: the current code of
\* a function that has code is recorded for pc.
FixTargetTable(table, fc, pc, f) ==
  IF HasCode(f, fc) THEN SetStaticCallTargetCodeAt(table, pc, fc[f])
  ELSE table

\* Mutant: the retained code is returned and not reattached.
FixTargetCode_NoReattach(table, fc, pc, f) == fc

\* The functions' code after FixCallersTarget: the code retained in the
\* table for pc is reattached to a function without code.
FixTargetCode(table, fc, pc, f) ==
  IF HasCode(f, fc) THEN fc ELSE ReattachCode(fc, f, table[pc])

\* DEFINE_RUNTIME_ENTRY(FixCallersTarget, 0)
FixCallersTarget ==
  \E pc \in Pcs :
    /\ IsStaleCall(pc)
    /\ LET target_function == GetStaticCallTargetFunctionAt(pc)
           had_code == HasCode(target_function, function_code)
           target_code == IF had_code THEN function_code[target_function]
                          ELSE static_call_target_code[pc]
           call == [op |-> "FixCallersTarget", pc |-> pc,
                    had_code |-> had_code]
       IN  IF ~had_code /\ (target_code = NoCode \/ IsOptimizedCode(target_code))
           THEN /\ ret' = [call |-> call, outcome |-> "assert"]
                /\ UNCHANGED <<function_code, call_site,
                               static_call_target_code>>
           ELSE /\ call_site' = IF had_code
                                THEN PatchStaticCallAt(call_site, pc,
                                                       EntryPoint(target_code))
                                ELSE call_site
                /\ static_call_target_code' =
                      FixTargetTable(static_call_target_code, function_code,
                                     pc, target_function)
                /\ function_code' =
                      FixTargetCode(static_call_target_code, function_code,
                                    pc, target_function)
                /\ ret' = [call |-> call, outcome |-> "return",
                           value |-> target_code]
    /\ UNCHANGED <<ic_data, megamorphic_cache_table>>

-----------------------------------------------------------------------------
(* Optimizer: CanOptimizeFunction, OptimizeInvokedFunction, StackOverflow  *)

\* FLAG_deoptimization_counter_threshold
deoptimization_counter_threshold == 16

kLowInvocationCount == -100000000

\* function.ToFullyQualifiedCString(), as a sequence of characters.
ToFullyQualifiedCString(f) == IF f = 1 THEN <<"c", "d">> ELSE <<"a", "b">>

\* strtok_r(filter, ",", ...) until it returns NULL: the tokens are the
\* maximal runs of characters other than the comma; none of them is empty.
RECURSIVE StrtokTokens(_, _)
StrtokTokens(s, token) ==
  IF s = <<>>
  THEN IF token = <<>> THEN <<>> ELSE <<token>>
  ELSE IF Head(s) = ","
  THEN IF token = <<>> THEN StrtokTokens(Tail(s), <<>>)
       ELSE <<token>> \o StrtokTokens(Tail(s), <<>>)
  ELSE StrtokTokens(Tail(s), Append(token, Head(s)))

\* strstr(name, token) != NULL
Strstr(name, token) ==
  \E i \in 1..(Len(name) - Len(token) + 1) :
     SubSeq(name, i, i + Len(token) - 1) = token

\* Mutant: the filter is compared with the whole name.
FilterFinds_WholeName(filter, name) ==
  \E i \in 1..Len(StrtokTokens(filter, <<>>)) :
     StrtokTokens(filter, <<>>)[i] = name

\* The loop over the tokens of FLAG_optimization_filter: found.
FilterFinds(filter, name) ==
  \E i \in 1..Len(StrtokTokens(filter, <<>>)) :
     Strstr(name, StrtokTokens(filter, <<>>)[i])

\* Mutant: the debugger's veto sets the sentinel as the other checks do.
DebuggerVetoCounter_Sentinel(uc, function) ==
  [uc EXCEPT ![function] = kLowInvocationCount]

\* function.set_usage_counter(0) when the debugger forbids optimizing.
DebuggerVetoCounter(uc, function) == [uc EXCEPT ![function] = 0]

\* Mutant: an unoptimizable function passes.
CanOptimizeFunction_IgnoresFlag(function, uc) ==
  IF debugger.is_stepping \/ function \in debugger.breakpoints
  THEN [result |-> FALSE, usage_counter |-> DebuggerVetoCounter(uc, function)]
  ELSE IF deoptimization_counter[function] >= deoptimization_counter_threshold
  THEN [result |-> FALSE,
        usage_counter |-> [uc EXCEPT ![function] = kLowInvocationCount]]
  ELSE IF /\ ~flags.optimization_filter_is_null
          /\ ~FilterFinds(flags.optimization_filter,
                          ToFullyQualifiedCString(function))
  THEN [result |-> FALSE,
        usage_counter |-> [uc EXCEPT ![function] = kLowInvocationCount]]
  ELSE [result |-> TRUE, usage_counter |-> uc]

\* CanOptimizeFunction(function, isolate): the value returned and the usage
\* counters afterwards.
CanOptimizeFunction(function, uc) ==
  IF debugger.is_stepping \/ function \in debugger.breakpoints
  THEN [result |-> FALSE, usage_counter |-> DebuggerVetoCounter(uc, function)]
  ELSE IF deoptimization_counter[function] >= deoptimization_counter_threshold
  THEN [result |-> FALSE,
        usage_counter |-> [uc EXCEPT ![function] = kLowInvocationCount]]
  ELSE IF /\ ~flags.optimization_filter_is_null
          /\ ~FilterFinds(flags.optimization_filter,
                          ToFullyQualifiedCString(function))
  THEN [result |-> FALSE,
        usage_counter |-> [uc EXCEPT ![function] = kLowInvocationCount]]
  ELSE IF ~is_optimizable[function]
  THEN [result |-> FALSE,
        usage_counter |-> [uc EXCEPT ![function] = kLowInvocationCount]]
  ELSE [result |-> TRUE, usage_counter |-> uc]

\* What an optimizing compilation does: it installs new optimized code, bails
\* out (no error, the current code unchanged) or fails with an error.
OptimizeOutcomes == {"ok", "bailout"} \cup CompileErrors

\* The code object an optimizing compilation of f makes: none the function
\* has.
NewOptimizedCode(f, fc) ==
  IF fc[f] = OptimizedCodeOf(f) THEN ReoptimizedCodeOf(f)
  ELSE OptimizedCodeOf(f)

\* Compiler::CompileOptimizedFunction(function, osr_id)
CompileOptimizedFunction(f, fc, outcome) ==
  IF outcome = "ok"
  THEN [fc |-> [fc EXCEPT ![f] = NewOptimizedCode(f, fc)], error |-> "null"]
  ELSE IF outcome = "bailout"
  THEN [fc |-> fc, error |-> "null"]
  ELSE [fc |-> fc, error |-> outcome]

\* The function of the top Dart frame and of OptimizeInvokedFunction's
\* argument.
OptFunctions == {2}

\* Mutant: the usage counter is left as the compilation found it.
ResetUsageCounter_Keeps(uc, function) == uc

\* function.set_usage_counter(0), after the optimizing compilation.
ResetUsageCounter(uc, function) == [uc EXCEPT ![function] = 0]

\* DEFINE_RUNTIME_ENTRY(OptimizeInvokedFunction, 1)
OptimizeInvokedFunction ==
  \E function \in OptFunctions, outcome \in OptimizeOutcomes :
    /\ HasCode(function, function_code)
    /\ LET can == CanOptimizeFunction(function, usage_counter)
           call == [op |-> "OptimizeInvokedFunction", function |-> function,
                    usage_counter |-> usage_counter[function]]
           c == CompileOptimizedFunction(function, function_code, outcome)
       IN  IF ~can.result
           THEN /\ usage_counter' = can.usage_counter
                /\ ret' = [call |-> call, outcome |-> "return",
                           value |-> function_code[function],
                           can_optimize |-> FALSE, compiled |-> "none"]
                /\ UNCHANGED function_code
           ELSE IF c.error # "null"
           THEN /\ usage_counter' = can.usage_counter
                /\ function_code' = c.fc
                /\ ret' = [call |-> call, outcome |-> "throw",
                           error |-> PropagateError(c.error),
                           can_optimize |-> TRUE, compiled |-> outcome]
           ELSE /\ usage_counter' =
                     ResetUsageCounter(can.usage_counter, function)
                /\ function_code' = c.fc
                /\ ret' = [call |-> call, outcome |-> "return",
                           value |-> c.fc[function],
                           can_optimize |-> TRUE, compiled |-> outcome]
    /\ UNCHANGED <<ic_data, megamorphic_cache_table, call_site,
                   static_call_target_code, deoptimization_counter,
                   is_optimizable, debugger, frame_pc, flags, interrupts>>

\* The interrupt bits of an isolate, in the order StackOverflow tests them.
InterruptOrder ==
  <<"kStoreBufferInterrupt", "kMessageInterrupt", "kApiInterrupt",
    "kVmStatusInterrupt">>

Interrupts == { InterruptOrder[i] : i \in 1..Len(InterruptOrder) }

\* isolate->InterruptCallback(): none, or what it returns.
InterruptCallbacks == {"none", "true", "false"}

\* Isolate::ScheduleInterrupts(interrupt_bits): another thread, or the
\* isolate itself, sets one of the bits in kinds.
ScheduleInterruptsOf(kinds) ==
  \E k \in kinds :
    /\ k \notin interrupts
    /\ interrupts' = interrupts \cup {k}
    /\ ret' = [call |-> [op |-> "ScheduleInterrupts", kind |-> k],
               outcome |-> "return"]
    /\ UNCHANGED <<ic_vars, usage_counter, deoptimization_counter,
                   is_optimizable, debugger, frame_pc, flags>>

ScheduleInterrupts == ScheduleInterruptsOf(Interrupts)

\* Isolate::ScheduleInterrupts(Isolate::kApiInterrupt)
ScheduleApiInterrupt == ScheduleInterruptsOf({"kApiInterrupt"})

\* Mutant: the bits are drained before the stack position is tested.
PendingAfterThrow_Drained(bits) == {}

\* The isolate's bits when the stack-overflow exception is thrown: the throw
\* comes before isolate->GetAndClearInterrupts().
PendingAfterThrow(bits) == bits

\* isolate->GetAndClearInterrupts()
GetAndClearInterrupts(bits) == [interrupt_bits |-> bits, interrupts |-> {}]

\* The API interrupt with a callback set ends the entry: it returns when the
\* callback returns true and is UNIMPLEMENTED when it returns false.
ApiCallbackEnds(interrupt_bits, callback) ==
  "kApiInterrupt" \in interrupt_bits /\ callback # "none"

\* The kinds whose branch StackOverflow enters, in the order it enters them.
Dispatched(interrupt_bits, callback) ==
  SelectSeq(InterruptOrder,
            LAMBDA k : /\ k \in interrupt_bits
                       /\ k = "kVmStatusInterrupt" =>
                             ~ApiCallbackEnds(interrupt_bits, callback))

\* Mutant: the code the compilation installed is kept as the function's.
RestoreCode_Keeps(fc, function, original_code) == fc

\* function.SetCode(original_code)
RestoreCode(fc, function, original_code) ==
  [fc EXCEPT ![function] = original_code]

\* Mutant: OSR is tried while interrupts were pending.
OsrEnabled_IgnoresInterrupts(interrupt_bits) == flags.use_osr

\* FLAG_use_osr && (interrupt_bits == 0)
OsrEnabled(interrupt_bits) == flags.use_osr /\ interrupt_bits = {}

\* Mutant: the frame is patched whatever the compilation left as the code.
OsrCodeInstalled_Always(optimized_code, original_code) == TRUE

\* optimized_code.raw() != original_code.raw(): the compilation did not bail
\* out.
OsrCodeInstalled(optimized_code, original_code) ==
  optimized_code # original_code

\* DEFINE_RUNTIME_ENTRY(StackOverflow, 0)
StackOverflow ==
  \E overflow \in BOOLEAN, callback \in InterruptCallbacks,
     outcome \in OptimizeOutcomes, function \in OptFunctions :
    /\ HasCode(function, function_code)
    /\ LET drained == GetAndClearInterrupts(interrupts)
           interrupt_bits == drained.interrupt_bits
           call == [op |-> "StackOverflow", function |-> function,
                    overflow |-> overflow, interrupt_bits |-> interrupts,
                    code |-> function_code[function], pc |-> frame_pc]
           api == ApiCallbackEnds(interrupt_bits, callback)
           dispatched == Dispatched(interrupt_bits, callback)
           can == CanOptimizeFunction(function, usage_counter)
           original_code == function_code[function]
           c == CompileOptimizedFunction(function, function_code, outcome)
           optimized_code == c.fc[function]
       IN  IF overflow
           THEN /\ ret' = [call |-> call, outcome |-> "throw",
                           error |-> "stack_overflow", compiled |-> "none",
                           dispatched |-> <<>>]
                /\ interrupts' = PendingAfterThrow(interrupts)
                /\ UNCHANGED <<function_code, usage_counter, frame_pc>>
           ELSE IF api
           THEN /\ ret' = [call |-> call,
                           outcome |-> IF callback = "true" THEN "return"
                                       ELSE "unimplemented",
                           compiled |-> "none", dispatched |-> dispatched]
                /\ interrupts' = drained.interrupts
                /\ UNCHANGED <<function_code, usage_counter, frame_pc>>
           ELSE IF ~OsrEnabled(interrupt_bits)
           THEN /\ ret' = [call |-> call, outcome |-> "return",
                           compiled |-> "none", dispatched |-> dispatched]
                /\ interrupts' = drained.interrupts
                /\ UNCHANGED <<function_code, usage_counter, frame_pc>>
           ELSE IF ~can.result
           THEN /\ usage_counter' = can.usage_counter
                /\ ret' = [call |-> call, outcome |-> "return",
                           compiled |-> "none", dispatched |-> dispatched]
                /\ interrupts' = drained.interrupts
                /\ UNCHANGED <<function_code, frame_pc>>
           ELSE IF c.error # "null"
           THEN /\ ret' = [call |-> call, outcome |-> "throw",
                           error |-> PropagateError(c.error),
                           compiled |-> outcome, dispatched |-> dispatched]
                /\ interrupts' = drained.interrupts
                /\ function_code' = c.fc
                /\ UNCHANGED <<usage_counter, frame_pc>>
           ELSE IF OsrCodeInstalled(optimized_code, original_code)
           THEN /\ function_code' = RestoreCode(c.fc, function, original_code)
                /\ frame_pc' = EntryPoint(optimized_code)
                /\ ret' = [call |-> call, outcome |-> "return",
                           compiled |-> outcome, dispatched |-> dispatched]
                /\ interrupts' = drained.interrupts
                /\ UNCHANGED usage_counter
           ELSE /\ ret' = [call |-> call, outcome |-> "return",
                           compiled |-> outcome, dispatched |-> dispatched]
                /\ interrupts' = drained.interrupts
                /\ function_code' = c.fc
                /\ UNCHANGED <<usage_counter, frame_pc>>
    /\ UNCHANGED <<ic_data, megamorphic_cache_table, call_site,
                   static_call_target_code, deoptimization_counter,
                   is_optimizable, debugger, flags>>

-----------------------------------------------------------------------------
(* Deoptimizer: DeoptimizeAt, DeoptimizeAll, DeoptimizeIfOwner and the     *)
(* three phases of the deoptimization stub                                 *)

\* Largest number of Dart frames on the stack.
MaxFrames == 2

\* frame == NULL: the iterator is past the last frame.  Frames are numbered
\* from the topmost one, 1.
NullFrame == 0

\* isolate->deopt_context() == NULL
NullContext == [is_null |-> TRUE, code |-> NoCode, dest_frame |-> FALSE]

\* The code objects of the functions on the stack.
DeoptCodes ==
  {UnoptimizedCodeOf(1), OptimizedCodeOf(1),
   UnoptimizedCodeOf(2), OptimizedCodeOf(2), ReoptimizedCodeOf(2)}

\* The return addresses in a code object that frames are at.
FramePcsOf(code) ==
  IF code = OptimizedCodeOf(2)
  THEN {EntryPoint(code) + 4, EntryPoint(code) + 8}
  ELSE {EntryPoint(code) + 4}

DeoptPcs == UNION { FramePcsOf(c) : c \in DeoptCodes }

\* StackFrame: frame->LookupDartCode() and frame->pc()
StackFrames ==
  { fr \in [code : DeoptCodes, pc : DeoptPcs] : fr.pc \in FramePcsOf(fr.code) }

\* Class::Handle(Function::Handle(code.function()).Owner()).id()
OwnerCid(code) == FunctionOf(code)

\* The sets of class ids DeoptimizeIfOwner is called with.
OwnerClasses == SUBSET {1, 2}

\* Code::GetLazyDeoptPc: non-zero for optimized code.
GetLazyDeoptPc(code) ==
  IF IsOptimizedCode(code) THEN EntryPoint(code) + 12 ELSE 0

\* Function::HasOptimizedCode
HasOptimizedCode(fc, function) ==
  HasCode(function, fc) /\ IsOptimizedCode(fc[function])

\* Function::SwitchToUnoptimizedCode
SwitchToUnoptimizedCode(fc, function) ==
  [fc EXCEPT ![function] = UnoptimizedCodeOf(function)]

\* Mutant: the function is switched only when its current code is the code
\* being deoptimized.
SwitchedCode_OnlyOwn(fc, function, optimized_code) ==
  IF fc[function] = optimized_code
  THEN SwitchToUnoptimizedCode(fc, function)
  ELSE fc

\* Mutant: every function that has optimized code is given the unoptimized
\* code of the function being deoptimized.
SwitchedCode_EveryFunction(fc, function, optimized_code) ==
  [f \in DOMAIN fc |-> IF IsOptimizedCode(fc[f])
                       THEN UnoptimizedCodeOf(function) ELSE fc[f]]

\* if (function.HasOptimizedCode()) function.SwitchToUnoptimizedCode();
SwitchedCode(fc, function, optimized_code) ==
  IF HasOptimizedCode(fc, function)
  THEN SwitchToUnoptimizedCode(fc, function)
  ELSE fc

\* Mutant: the call is not written.
InsertCallAt_Lost(calls, pc, target) == calls

\* CodePatcher::InsertCallAt(pc, lazy_deopt_jump)
InsertCallAt(calls, pc, target) == [calls EXCEPT ![pc] = target]

\* Mutant: the alive flag is flipped.
MarkDead_Toggles(alive, code) == [alive EXCEPT ![code] = ~alive[code]]

\* optimized_code.set_is_alive(false)
MarkDead(alive, code) == [alive EXCEPT ![code] = FALSE]

\* void DeoptimizeAt(const Code& optimized_code, uword pc)
DeoptimizeAt(optimized_code, pc, fc, alive, calls) ==
  LET function == FunctionOf(optimized_code)
      lazy_deopt_jump == GetLazyDeoptPc(optimized_code)
  IN  IF ~IsOptimizedCode(optimized_code) \/ lazy_deopt_jump = 0
      THEN [outcome |-> "assert", fc |-> fc, alive |-> alive, calls |-> calls]
      ELSE [outcome |-> "return",
            fc |-> SwitchedCode(fc, function, optimized_code),
            calls |-> InsertCallAt(calls, pc, lazy_deopt_jump),
            alive |-> MarkDead(alive, optimized_code)]

\* No stack walk is running.
NoWalk == [op |-> "none", classes |-> {}, frame |-> NullFrame]

\* The isolate's thread is in neither a stack walk nor the deoptimization
\* stub: a runtime entry can be called.
Idle == walk = NoWalk /\ stub = "idle"

\* The topmost frame returns into a call site patched to its code's lazy
\* deoptimization jump.
LazyReturn ==
  /\ stack # <<>>
  /\ IsOptimizedCode(stack[1].code)
  /\ inserted_call[stack[1].pc] = GetLazyDeoptPc(stack[1].code)

\* A caller deoptimizes the code of one frame of the stack at its pc.
DeoptimizeAtFrame ==
  \E i \in 1..Len(stack) :
    /\ Idle
    /\ LET fr == stack[i]
           r == DeoptimizeAt(fr.code, fr.pc, function_code, is_alive,
                             inserted_call)
       IN  /\ function_code' = r.fc
           /\ is_alive' = r.alive
           /\ inserted_call' = r.calls
           /\ ret' = [call |-> [op |-> "DeoptimizeAt", code |-> fr.code,
                                pc |-> fr.pc,
                                current |-> function_code[FunctionOf(fr.code)]],
                      outcome |-> r.outcome]
    /\ UNCHANGED <<stack, deopt_context, stub, walk, ic_data,
                   megamorphic_cache_table, call_site,
                   static_call_target_code>>

\* The topmost frame returns to its caller; a frame whose return is patched
\* goes through the deoptimization stub first.
ReturnFromFrame ==
  /\ Idle
  /\ stack # <<>>
  /\ ~LazyReturn
  /\ stack' = Tail(stack)
  /\ ret' = [call |-> [op |-> "ReturnFromFrame"], outcome |-> "return"]
  /\ UNCHANGED <<is_alive, inserted_call, deopt_context, stub, walk, ic_vars>>

\* DartFrameIterator::NextFrame(), after frame (0 for a new iterator).
NextFrame(stk, frame) == IF frame < Len(stk) THEN frame + 1 ELSE NullFrame

\* The loop body of a stack walk at frame: DeoptimizeAt when deoptimize.
WalkBody(frame, deoptimize) ==
  LET fr == stack[frame]
      r == DeoptimizeAt(fr.code, fr.pc, function_code, is_alive,
                        inserted_call)
  IN  IF deoptimize
      THEN /\ function_code' = r.fc
           /\ is_alive' = r.alive
           /\ inserted_call' = r.calls
      ELSE UNCHANGED <<function_code, is_alive, inserted_call>>

\* DeoptimizeAll(): DartFrameIterator iterator; frame = iterator.NextFrame()
DeoptimizeAll ==
  /\ Idle
  /\ walk' = [op |-> "DeoptimizeAll", classes |-> {},
              frame |-> NextFrame(stack, 0)]
  /\ UNCHANGED <<stack, is_alive, inserted_call, deopt_context, stub, ret,
                 ic_vars>>

\* Mutant: the loop does not advance the iterator.
DeoptimizeAllAdvance_Stuck(stk, frame) == frame

\* DeoptimizeAll(): frame = iterator.NextFrame() at the end of the loop body
DeoptimizeAllAdvance(stk, frame) == NextFrame(stk, frame)

\* DeoptimizeAll(): one iteration of the while loop
DeoptimizeAllLoop ==
  /\ walk.op = "DeoptimizeAll"
  /\ walk.frame # NullFrame
  /\ WalkBody(walk.frame, IsOptimizedCode(stack[walk.frame].code))
  /\ walk' = [walk EXCEPT !.frame = DeoptimizeAllAdvance(stack, walk.frame)]
  /\ UNCHANGED <<stack, deopt_context, stub, ret, ic_data,
                 megamorphic_cache_table, call_site,
                 static_call_target_code>>

\* DeoptimizeAll(): frame == NULL, the function returns
DeoptimizeAllReturn ==
  /\ walk.op = "DeoptimizeAll"
  /\ walk.frame = NullFrame
  /\ walk' = NoWalk
  /\ ret' = [call |-> [op |-> "DeoptimizeAll"], outcome |-> "return"]
  /\ UNCHANGED <<stack, is_alive, inserted_call, deopt_context, stub,
                 ic_vars>>

\* ContainsCid(classes, cid)
ContainsCid(classes, cid) == cid \in classes

\* DeoptimizeIfOwner(classes): DartFrameIterator iterator;
\* frame = iterator.NextFrame()
DeoptimizeIfOwner ==
  \E classes \in OwnerClasses :
    /\ Idle
    /\ walk' = [op |-> "DeoptimizeIfOwner", classes |-> classes,
                frame |-> NextFrame(stack, 0)]
    /\ UNCHANGED <<stack, is_alive, inserted_call, deopt_context, stub, ret,
                   ic_vars>>

\* DeoptimizeIfOwner(classes): one iteration of the while loop, which does
\* not call iterator.NextFrame()
DeoptimizeIfOwnerLoop ==
  /\ walk.op = "DeoptimizeIfOwner"
  /\ walk.frame # NullFrame
  /\ WalkBody(walk.frame,
              /\ IsOptimizedCode(stack[walk.frame].code)
              /\ ContainsCid(walk.classes, OwnerCid(stack[walk.frame].code)))
  /\ UNCHANGED <<walk, stack, deopt_context, stub, ret, ic_data,
                 megamorphic_cache_table, call_site,
                 static_call_target_code>>

\* DeoptimizeIfOwner(classes): frame == NULL, the function returns
DeoptimizeIfOwnerReturn ==
  /\ walk.op = "DeoptimizeIfOwner"
  /\ walk.frame = NullFrame
  /\ walk' = NoWalk
  /\ ret' = [call |-> [op |-> "DeoptimizeIfOwner", classes |-> walk.classes],
             outcome |-> "return"]
  /\ UNCHANGED <<stack, is_alive, inserted_call, deopt_context, stub,
                 ic_vars>>

\* Mutant: the context is made for the function's unoptimized code.
NewDeoptContext_Unoptimized(caller_frame) ==
  [is_null |-> FALSE,
   code |-> UnoptimizedCodeOf(FunctionOf(caller_frame.code)),
   dest_frame |-> FALSE]

\* new DeoptContext(caller_frame, optimized_code, kDestIsOriginalFrame, ...)
NewDeoptContext(caller_frame) ==
  [is_null |-> FALSE, code |-> caller_frame.code, dest_frame |-> FALSE]

\* DEFINE_LEAF_RUNTIME_ENTRY(intptr_t, DeoptimizeCopyFrame, ...): called by
\* the deoptimization stub of the topmost frame's code, when a check of the
\* optimized code fails or the frame is returned to through a patched call.
DeoptimizeCopyFrame ==
  /\ Idle
  /\ stack # <<>>
  /\ LET caller_frame == stack[1]
         call == [op |-> "DeoptimizeCopyFrame", code |-> caller_frame.code,
                  pc |-> caller_frame.pc, lazy |-> LazyReturn,
                  context |-> deopt_context]
     IN  IF ~IsOptimizedCode(caller_frame.code)
         THEN /\ ret' = [call |-> call, outcome |-> "assert"]
              /\ UNCHANGED <<deopt_context, stub>>
         ELSE /\ deopt_context' = NewDeoptContext(caller_frame)
              /\ stub' = "copied"
              /\ ret' = [call |-> call, outcome |-> "return"]
  /\ UNCHANGED <<stack, is_alive, inserted_call, walk, ic_vars>>

\* The checks of DeoptimizeFillFrame in a DEBUG build.
FillFrameChecks(context, caller_frame) ==
  /\ context.code = caller_frame.code
  /\ IsOptimizedCode(caller_frame.code)
  /\ ~IsOptimizedCode(UnoptimizedCodeOf(FunctionOf(caller_frame.code)))

\* DEFINE_LEAF_RUNTIME_ENTRY(void, DeoptimizeFillFrame, 1, uword last_fp):
\* called by the stub after DeoptimizeCopyFrame returned.
DeoptimizeFillFrame ==
  /\ stub = "copied"
  /\ LET caller_frame == stack[1]
         call == [op |-> "DeoptimizeFillFrame", code |-> caller_frame.code,
                  pc |-> caller_frame.pc, context |-> deopt_context]
     IN  IF ~FillFrameChecks(deopt_context, caller_frame)
         THEN /\ ret' = [call |-> call, outcome |-> "assert"]
              /\ UNCHANGED deopt_context
         ELSE /\ deopt_context' = [deopt_context EXCEPT !.dest_frame = TRUE]
              /\ ret' = [call |-> call, outcome |-> "return"]
  /\ stub' = "filled"
  /\ UNCHANGED <<stack, is_alive, inserted_call, walk, ic_vars>>

\* Mutant: the context stays installed.
ClearDeoptContext_Keeps(context) == context

\* isolate->set_deopt_context(NULL); delete deopt_context;
ClearDeoptContext(context) == NullContext

\* The frame the stub continues in: the function's unoptimized code at the
\* deopt pc.
UnoptimizedFrame(fr) ==
  LET code == UnoptimizedCodeOf(FunctionOf(fr.code))
  IN  [code |-> code, pc |-> EntryPoint(code) + 4]

\* DEFINE_RUNTIME_ENTRY(DeoptimizeMaterialize, 0): called by the stub after
\* DeoptimizeFillFrame returned; the stub then continues in the unoptimized
\* code.
DeoptimizeMaterialize ==
  /\ stub = "filled"
  /\ deopt_context' = ClearDeoptContext(deopt_context)
  /\ stack' = [stack EXCEPT ![1] = UnoptimizedFrame(stack[1])]
  /\ stub' = "idle"
  /\ ret' = [call |-> [op |-> "DeoptimizeMaterialize",
                       code |-> stack[1].code, pc |-> stack[1].pc,
                       context |-> deopt_context],
             outcome |-> "return"]
  /\ UNCHANGED <<is_alive, inserted_call, walk, ic_vars>>

-----------------------------------------------------------------------------
(* The IC-engine specification                                             *)

\* The IC data of a call site before its first miss: empty for an instance
\* call testing 1, 2 or 3 arguments, holding the known target for a static
\* call.
InitialICData ==
  { [kind |-> "instance", num_args_tested |-> n, checks |-> <<>>] :
       n \in 1..3 }
  \cup
  { [kind |-> "static", num_args_tested |-> 2,
     checks |-> << [class_ids |-> <<kObjectCid, kObjectCid>>,
                    target |-> 2] >>] }

\* A function has no code yet, its unoptimized code or its optimized code.
InitialFunctionCode ==
  { fc \in [Functions -> 0..6] :
      \A f \in Functions :
         fc[f] \in {NoCode, UnoptimizedCodeOf(f), OptimizedCodeOf(f)} }

NoMegamorphicCache == [exists |-> FALSE, entries |-> {}]

\* The IC engine at rest, as the type-engine specification keeps it.
ICQuiescent ==
  /\ ic_data = [kind |-> "instance", num_args_tested |-> 1, checks |-> <<>>]
  /\ function_code = [f \in Functions |-> NoCode]
  /\ megamorphic_cache_table = NoMegamorphicCache
  /\ call_site = [pc \in Pcs |-> CallStaticFunctionStubEntry]
  /\ static_call_target_code = [pc \in Pcs |-> NoCode]

\* The optimizer's state at rest, as the IC-engine and the type-engine
\* specifications keep it.
OptQuiescent ==
  /\ usage_counter = [f \in Functions |-> 0]
  /\ deoptimization_counter = [f \in Functions |-> 0]
  /\ is_optimizable = [f \in Functions |-> TRUE]
  /\ debugger = [is_stepping |-> FALSE, breakpoints |-> {}]
  /\ frame_pc = 0
  /\ flags = [use_osr |-> TRUE, optimization_filter |-> <<>>,
              optimization_filter_is_null |-> TRUE]
  /\ interrupts = {}

\* The deoptimizer at rest, as the other specifications keep it.
DeoptQuiescent ==
  /\ stack = <<>>
  /\ is_alive = [c \in 1..6 |-> TRUE]
  /\ inserted_call = [pc \in DeoptPcs |-> 0]
  /\ deopt_context = NullContext
  /\ stub = "idle"
  /\ walk = NoWalk

\* The type engine at rest, as the IC-engine specification keeps it.
TypeQuiescent ==
  /\ type_arguments = [i \in Instances |-> NullTA]
  /\ canonical_type_arguments = [v \in TypeVectors |-> NullTA]
  /\ cache = <<>>

ICInit ==
  /\ ic_data \in InitialICData
  /\ function_code \in InitialFunctionCode
  /\ megamorphic_cache_table = NoMegamorphicCache
  /\ call_site = [pc \in Pcs |-> CallStaticFunctionStubEntry]
  /\ static_call_target_code = [pc \in Pcs |-> NoCode]
  /\ ret = [call |-> [op |-> "none"], outcome |-> "none"]
  /\ TypeQuiescent
  /\ OptQuiescent
  /\ DeoptQuiescent

ICNext ==
  \/ InlineCacheMissHandlerOneArg /\ UNCHANGED <<type_vars, opt_vars, deopt_vars>>
  \/ InlineCacheMissHandlerTwoArgs /\ UNCHANGED <<type_vars, opt_vars, deopt_vars>>
  \/ InlineCacheMissHandlerThreeArgs /\ UNCHANGED <<type_vars, opt_vars, deopt_vars>>
  \/ StaticCallMissHandlerTwoArgs /\ UNCHANGED <<type_vars, opt_vars, deopt_vars>>
  \/ MegamorphicCacheMissHandler /\ UNCHANGED <<type_vars, opt_vars, deopt_vars>>
  \/ UpdateICDataTwoArgs /\ UNCHANGED <<type_vars, opt_vars, deopt_vars>>
  \/ InstanceFunctionLookup /\ UNCHANGED <<type_vars, opt_vars, deopt_vars>>
  \/ PatchStaticCall /\ UNCHANGED <<type_vars, opt_vars, deopt_vars>>

ICSpec == ICInit /\ [][ICNext]_vars

-----------------------------------------------------------------------------
(* The type-engine specification                                           *)

NoCall == [call |-> [op |-> "none"], outcome |-> "none"]

\* The canonical table holds, for each structural value, no vector yet or
\* one flat vector of that value.
CanonicalTables ==
  { canon \in [TypeVectors -> {NullTA} \cup TypeArgObjects] :
      \A v \in TypeVectors :
         canon[v] # NullTA =>
            IsTypeArguments(canon[v]) /\ TypeVector(canon[v]) = v }

\* Instances of generic classes hold null or any vector; the others null.
TypeHeaps ==
  { ta \in [Instances -> {NullTA} \cup TypeArgObjects] :
      \A i \in Instances :
         NumTypeArguments(GetClassId(i)) = 0 => ta[i] = NullTA }

TypeInit ==
  /\ type_arguments \in TypeHeaps
  /\ canonical_type_arguments \in CanonicalTables
  /\ cache = <<>>
  /\ ret = NoCall
  /\ ICQuiescent
  /\ OptQuiescent
  /\ DeoptQuiescent

TypeNext ==
  \/ Instanceof /\ UNCHANGED <<ic_vars, opt_vars, deopt_vars>>
  \/ TypeCheck /\ UNCHANGED <<ic_vars, opt_vars, deopt_vars>>

TypeSpec == TypeInit /\ [][TypeNext]_vars

-----------------------------------------------------------------------------
(* The specification of the patcher front-end and the optimizer            *)

\* The codes a function can have as its current code before the first entry.
InitialCodes(f) == {NoCode, UnoptimizedCodeOf(f), OptimizedCodeOf(f)}

\* The static call at pc before the first entry: unpatched, or patched to
\* the entry point of a code of its target that the table records.  When the
\* target has no code, the code the table retains is unoptimized.
InitialCallSites ==
  { st \in [site : {CallStaticFunctionStubEntry} \cup
                      { EntryPoint(c) : c \in 1..6 },
            code : 0..6] :
      LET f == GetStaticCallTargetFunctionAt(1)
      IN  \/ st.site = CallStaticFunctionStubEntry /\ st.code = NoCode
          \/ /\ st.code \in InitialCodes(f) \ {NoCode}
             /\ st.site = EntryPoint(st.code) }

\* FLAG_optimization_filter when it is set.
OptimizationFilters ==
  { <<"c">>, <<"c", ",", "b">>, <<",">> }

InitialFlags ==
  [use_osr : BOOLEAN, optimization_filter : {<<>>},
   optimization_filter_is_null : {TRUE}]
  \cup
  [use_osr : BOOLEAN, optimization_filter : OptimizationFilters,
   optimization_filter_is_null : {FALSE}]

\* The pc of the top Dart frame: in the unoptimized code of its function.
InitialFramePc == EntryPoint(UnoptimizedCodeOf(2)) + 4

CodeInit ==
  /\ function_code \in { fc \in [Functions -> 0..6] :
                           fc[1] = NoCode /\ fc[2] \in InitialCodes(2) }
  /\ \E st \in InitialCallSites :
        /\ function_code[2] = NoCode => ~IsOptimizedCode(st.code)
        /\ call_site = [pc \in Pcs |-> st.site]
        /\ static_call_target_code = [pc \in Pcs |-> st.code]
  /\ usage_counter = [f \in Functions |-> 7]
  /\ deoptimization_counter \in
        { dc \in [Functions -> {0, deoptimization_counter_threshold - 1,
                                deoptimization_counter_threshold}] :
             dc[1] = 0 /\ dc[2] # 0 }
  /\ is_optimizable \in { o \in [Functions -> BOOLEAN] : o[1] }
  /\ debugger \in [is_stepping : BOOLEAN, breakpoints : {{}, {2}}]
  /\ frame_pc = InitialFramePc
  /\ flags \in InitialFlags
  /\ interrupts = {}
  /\ ic_data = [kind |-> "instance", num_args_tested |-> 1, checks |-> <<>>]
  /\ megamorphic_cache_table = NoMegamorphicCache
  /\ ret = NoCall
  /\ TypeQuiescent
  /\ DeoptQuiescent

CodeNext ==
  \/ PatchStaticCall /\ UNCHANGED <<type_vars, opt_vars, deopt_vars>>
  \/ FixCallersTarget /\ UNCHANGED <<type_vars, opt_vars, deopt_vars>>
  \/ OptimizeInvokedFunction /\ UNCHANGED <<type_vars, deopt_vars>>
  \/ StackOverflow /\ UNCHANGED <<type_vars, deopt_vars>>
  \/ ScheduleApiInterrupt /\ UNCHANGED <<type_vars, deopt_vars>>

CodeSpec == CodeInit /\ [][CodeNext]_vars

-----------------------------------------------------------------------------
(* The specification of the interrupt poll: every kind of interrupt is     *)
(* scheduled, StackOverflow polls                                          *)

PollInit ==
  /\ function_code = [f \in Functions |->
                        IF f = 2 THEN UnoptimizedCodeOf(f) ELSE NoCode]
  /\ call_site = [pc \in Pcs |-> CallStaticFunctionStubEntry]
  /\ static_call_target_code = [pc \in Pcs |-> NoCode]
  /\ usage_counter = [f \in Functions |-> 7]
  /\ deoptimization_counter = [f \in Functions |-> 0]
  /\ is_optimizable \in { o \in [Functions -> BOOLEAN] : o[1] }
  /\ debugger = [is_stepping |-> FALSE, breakpoints |-> {}]
  /\ frame_pc = InitialFramePc
  /\ flags \in [use_osr : BOOLEAN, optimization_filter : {<<>>},
                 optimization_filter_is_null : {TRUE}]
  /\ interrupts = {}
  /\ ic_data = [kind |-> "instance", num_args_tested |-> 1, checks |-> <<>>]
  /\ megamorphic_cache_table = NoMegamorphicCache
  /\ ret = NoCall
  /\ TypeQuiescent
  /\ DeoptQuiescent

PollNext ==
  \/ ScheduleInterrupts /\ UNCHANGED <<type_vars, deopt_vars>>
  \/ StackOverflow /\ UNCHANGED <<type_vars, deopt_vars>>

PollSpec == PollInit /\ [][PollNext]_vars

-----------------------------------------------------------------------------
(* The specification of the deoptimizer                                    *)

\* The stacks before the first entry: up to MaxFrames frames.
InitialStacks ==
  UNION { [1..n -> StackFrames] : n \in 0..MaxFrames }

DeoptInit ==
  /\ stack \in InitialStacks
  /\ function_code \in
       { fc \in [Functions -> 0..6] :
            /\ fc[1] \in {UnoptimizedCodeOf(1), OptimizedCodeOf(1)}
            /\ fc[2] \in {UnoptimizedCodeOf(2), OptimizedCodeOf(2),
                          ReoptimizedCodeOf(2)} }
  /\ is_alive = [c \in 1..6 |-> TRUE]
  /\ inserted_call = [pc \in DeoptPcs |-> 0]
  /\ deopt_context = NullContext
  /\ stub = "idle"
  /\ walk = NoWalk
  /\ ic_data = [kind |-> "instance", num_args_tested |-> 1, checks |-> <<>>]
  /\ megamorphic_cache_table = NoMegamorphicCache
  /\ call_site = [pc \in Pcs |-> CallStaticFunctionStubEntry]
  /\ static_call_target_code = [pc \in Pcs |-> NoCode]
  /\ ret = NoCall
  /\ TypeQuiescent
  /\ OptQuiescent

DeoptNext ==
  \/ DeoptimizeAtFrame /\ UNCHANGED <<type_vars, opt_vars>>
  \/ ReturnFromFrame /\ UNCHANGED <<type_vars, opt_vars>>
  \/ DeoptimizeAll /\ UNCHANGED <<type_vars, opt_vars>>
  \/ DeoptimizeAllLoop /\ UNCHANGED <<type_vars, opt_vars>>
  \/ DeoptimizeAllReturn /\ UNCHANGED <<type_vars, opt_vars>>
  \/ DeoptimizeIfOwner /\ UNCHANGED <<type_vars, opt_vars>>
  \/ DeoptimizeIfOwnerLoop /\ UNCHANGED <<type_vars, opt_vars>>
  \/ DeoptimizeIfOwnerReturn /\ UNCHANGED <<type_vars, opt_vars>>
  \/ DeoptimizeCopyFrame /\ UNCHANGED <<type_vars, opt_vars>>
  \/ DeoptimizeFillFrame /\ UNCHANGED <<type_vars, opt_vars>>
  \/ DeoptimizeMaterialize /\ UNCHANGED <<type_vars, opt_vars>>

DeoptSpec == DeoptInit /\ [][DeoptNext]_vars

\* The variables the deoptimizer's actions write.
deopt_state == <<deopt_vars, ic_vars, ret>>

\* The thread runs: a started stack walk goes on and the stub goes from one
\* phase to the next.
DeoptFairness ==
  /\ WF_deopt_state(DeoptimizeAllLoop)
  /\ WF_deopt_state(DeoptimizeAllReturn)
  /\ WF_deopt_state(DeoptimizeIfOwnerLoop)
  /\ WF_deopt_state(DeoptimizeIfOwnerReturn)
  /\ WF_deopt_state(DeoptimizeFillFrame)
  /\ WF_deopt_state(DeoptimizeMaterialize)

DeoptFairSpec == DeoptSpec /\ DeoptFairness

-----------------------------------------------------------------------------
(* Claims about the type engine (checked under TypeSpec)                   *)

TypeOps == {"Instanceof", "TypeCheck"}

\* The key triple of a check.
KeyOf(e) == <<e.instance_class_id, e.instance_type_arguments,
              e.instantiator_type_arguments>>

\* C1: the subtype-test cache never holds more than
\* max_subtype_cache_entries checks.
C1_CacheBounded == Len(cache) <= max_subtype_cache_entries

\* C1 witness: a type test that returned on a full, non-null cache.
C1_Witness ==
  /\ ret.call.op \in TypeOps
  /\ ret.outcome = "return"
  /\ ~ret.call.cache_is_null
  /\ Len(cache) = max_subtype_cache_entries

\* C2: no two checks of the cache have the same key triple, and a call
\* either leaves the cache as it was or appends one check whose key triple
\* was not present.
C2_NoDuplicateKeys ==
  [][ /\ \A i, j \in 1..Len(cache') :
            KeyOf(cache'[i]) = KeyOf(cache'[j]) => i = j
      /\ \/ cache' = cache
         \/ /\ Len(cache') = Len(cache) + 1
            /\ SubSeq(cache', 1, Len(cache)) = cache
            /\ \A i \in 1..Len(cache) :
                  KeyOf(cache[i]) # KeyOf(cache'[Len(cache')]) ]_vars

\* The key triple that the call r, returned on a non-null cache, looked
\* up, read from the heap ta after the call.
KeyOfCallIn(r, ta) ==
  <<GetClassId(r.call.instance),
    IF NumTypeArguments(GetClassId(r.call.instance)) > 0
    THEN ta[r.call.instance] ELSE NullTA,
    IF r.call.instantiator # NullInstance
    THEN ta[r.call.instantiator] ELSE r.call.incoming>>

KeyOfCall == KeyOfCallIn(ret, type_arguments)

\* C2 witness: a call on a cache with room whose key triple was already
\* present, and which inserted nothing.
C2_Witness ==
  /\ ret.call.op \in TypeOps
  /\ ret.outcome = "return"
  /\ ~ret.call.cache_is_null
  /\ ret.entry.number_of_checks < max_subtype_cache_entries
  /\ Len(cache) = ret.entry.number_of_checks
  /\ \E i \in 1..Len(cache) : KeyOf(cache[i]) = KeyOfCall

\* A key vector is canonical: null (a raw type) or the canonical vector.
CanonicalKey(t) == t = NullTA \/ IsCanonical(t, canonical_type_arguments)

\* C3 as stated: no check has a lazy pair as instantiator type arguments,
\* and every vector stored as a key is canonical, also when the instantiator
\* object is null.
C3_Original ==
  \A i \in 1..Len(cache) :
     /\ ~IsInstantiatedTypeArguments(cache[i].instantiator_type_arguments)
     /\ CanonicalKey(cache[i].instance_type_arguments)
     /\ CanonicalKey(cache[i].instantiator_type_arguments)

\* C3 amended: no check has a lazy pair as instantiator type arguments,
\* every instance type-arguments key is canonical, and the instantiator
\* type-arguments key of a check added by a call with a non-null
\* instantiator object is canonical.
C3_KeysCanonical ==
  /\ \A i \in 1..Len(cache) :
        /\ ~IsInstantiatedTypeArguments(cache[i].instantiator_type_arguments)
        /\ CanonicalKey(cache[i].instance_type_arguments)
  /\ ( /\ ret.call.op \in TypeOps
       /\ Len(cache) > ret.entry.number_of_checks
       /\ ret.call.instantiator # NullInstance )
     => CanonicalKey(cache[Len(cache)].instantiator_type_arguments)

\* C3 witness: a call with a non-null instantiator whose vector was a lazy
\* pair added a check.
C3_Witness ==
  /\ ret.call.op \in TypeOps
  /\ Len(cache) > ret.entry.number_of_checks
  /\ ret.call.instantiator # NullInstance
  /\ IsInstantiatedTypeArguments(ret.call.incoming)
  /\ cache[Len(cache)].instantiator_type_arguments # NullTA

\* C4 as stated: one Instanceof or TypeCheck call on an instance whose
\* vector is a lazy pair leaves it flat and canonical, whatever the cache
\* argument and the outcome.
C4_Original ==
  ( /\ ret.call.op \in TypeOps
    /\ IsInstantiatedTypeArguments(ret.entry.instance_type_arguments) )
  => IsCanonical(type_arguments[ret.call.instance], canonical_type_arguments)

\* C4 amended: the same, for a call that returns (does not throw) and whose
\* cache argument is not null.
C4_LazyReplaced ==
  ( /\ ret.call.op \in TypeOps
    /\ IsInstantiatedTypeArguments(ret.entry.instance_type_arguments)
    /\ ret.outcome = "return"
    /\ ~ret.call.cache_is_null )
  => IsCanonical(type_arguments[ret.call.instance], canonical_type_arguments)

\* C4 witness: such a call on a full cache, with the nested lazy pair.
C4_Witness ==
  /\ ret.call.op \in TypeOps
  /\ ret.entry.instance_type_arguments = 4
  /\ ret.outcome = "return"
  /\ ~ret.call.cache_is_null
  /\ ret.entry.number_of_checks = max_subtype_cache_entries
  /\ IsCanonical(type_arguments[ret.call.instance], canonical_type_arguments)

\* C5: a vector that a call replaces is canonical afterwards, and a
\* canonical vector is left identical (and canonical) by every call.
C5_Idempotent ==
  [][ \A i \in Instances :
         /\ type_arguments'[i] # type_arguments[i] =>
               IsCanonical(type_arguments'[i], canonical_type_arguments')
         /\ IsCanonical(type_arguments[i], canonical_type_arguments) =>
               /\ type_arguments'[i] = type_arguments[i]
               /\ IsCanonical(type_arguments'[i], canonical_type_arguments')
    ]_vars

\* C5 witness: a call that reached the cache update on an instance whose
\* vector was already canonical, and left it as it was.
C5_Witness ==
  /\ ret.call.op \in TypeOps
  /\ ret.outcome = "return"
  /\ ~ret.call.cache_is_null
  /\ ret.entry.instance_type_arguments # NullTA
  /\ ret.entry.instance_type_arguments = type_arguments[ret.call.instance]
  /\ IsCanonical(type_arguments[ret.call.instance], canonical_type_arguments)

\* The type error TypeCheck raises for the call in ret.
TypeCheckError ==
  [src_type_name |-> UserVisibleName(GetClassId(ret.call.instance)),
   dst_type_name |-> DstTypeName(DstTypeIsInstantiated(ret.call.instantiator,
                                    ret.call.incoming), ret.call.incoming),
   dst_name |-> ret.dst_name,
   bound_error_message |-> "null"]

\* C6 as stated: a failed TypeCheck without bound error throws the type
\* error and leaves the cache as it was; a successful one returns the
\* instance, and the (non-null) cache then holds the check with result true.
C6_Original ==
  ret.call.op = "TypeCheck" =>
    /\ (~ret.is_instance_of /\ ~ret.bound_error) =>
          /\ ret.outcome = "throw"
          /\ ret.error = TypeCheckError
          /\ Len(cache) = ret.entry.number_of_checks
    /\ (ret.is_instance_of /\ ~ret.call.cache_is_null) =>
          /\ ret.outcome = "return"
          /\ ret.value = ret.call.instance
          /\ \E i \in 1..Len(cache) :
                KeyOf(cache[i]) = KeyOfCall /\ cache[i].result = TRUE

\* The cases in which the cache update of the call r adds nothing, given
\* the cache c on entry and the heap ta after the call.
NoInsert(c, r, ta) ==
  \/ r.call.cache_is_null
  \/ Len(c) >= max_subtype_cache_entries
  \/ \E i \in 1..Len(c) : KeyOf(c[i]) = KeyOfCallIn(r, ta)
  \/ IsInstantiatedTypeArguments(KeyOfCallIn(r, ta)[3])

\* C6 amended: a failed TypeCheck without bound error throws the type error
\* and leaves the cache as it was; a successful one returns the instance
\* and appends the check with result true, except that it adds nothing when
\* the cache is null, is full, holds the key triple already, or the
\* instantiator type arguments are a lazy pair.
C6_TypeCheck ==
  [][ ret'.call.op = "TypeCheck" =>
        /\ (~ret'.is_instance_of /\ ~ret'.bound_error) =>
              /\ ret'.outcome = "throw"
              /\ ret'.error = TypeCheckError'
              /\ cache' = cache
        /\ ret'.is_instance_of =>
              /\ ret'.outcome = "return"
              /\ ret'.value = ret'.call.instance
              /\ IF NoInsert(cache, ret', type_arguments')
                 THEN cache' = cache
                 ELSE cache' = Append(cache,
                         [instance_class_id |-> KeyOfCall'[1],
                          instance_type_arguments |-> KeyOfCall'[2],
                          instantiator_type_arguments |-> KeyOfCall'[3],
                          result |-> TRUE]) ]_vars

\* C6 witness: a successful TypeCheck that added its check.
C6_Witness ==
  /\ ret.call.op = "TypeCheck"
  /\ ret.is_instance_of
  /\ ret.outcome = "return"
  /\ Len(cache) = ret.entry.number_of_checks + 1
  /\ cache[Len(cache)].result = TRUE
  /\ KeyOf(cache[Len(cache)]) = KeyOfCall


-----------------------------------------------------------------------------
(* Claims about the IC engine, checked under ICSpec                        *)

InlineMissOps ==
  {"InlineCacheMissHandlerOneArg", "InlineCacheMissHandlerTwoArgs",
   "InlineCacheMissHandlerThreeArgs"}

CompilingOps ==
  InlineMissOps \cup {"StaticCallMissHandlerTwoArgs",
                      "MegamorphicCacheMissHandler", "PatchStaticCall"}

\* C7: every recorded check of an IC data object has a class-id vector of
\* length exactly its num_args_tested, whichever of the inline-cache miss
\* handlers, StaticCallMissHandlerTwoArgs, UpdateICDataTwoArgs and
\* InstanceFunctionLookup (getter path and noSuchMethod path) ran on it.
C7_Original ==
  \A i \in 1..Len(ic_data.checks) :
     Len(ic_data.checks[i].class_ids) = ic_data.num_args_tested

\* C8: on an IC data with num_args_tested = 1 and no checks, an
\* InlineCacheMissHandlerOneArg call that returns for a receiver whose target
\* resolves leaves exactly one check (receiver class id -> resolved
\* function), the resolved function has code (the code it had, or the code
\* just compiled), and the value returned is that function.
C8_MonomorphicWarming ==
  [][ ( /\ ret'.call.op = "InlineCacheMissHandlerOneArg"
        /\ ret'.outcome = "return"
        /\ ic_data.num_args_tested = 1
        /\ ic_data.checks = <<>>
        /\ ResolveDynamic(ret'.call.class_ids[1]) # NullFunction )
      => LET cid == ret'.call.class_ids[1]
             function == ResolveDynamic(cid)
         IN  /\ ic_data'.checks =
                   << [class_ids |-> <<cid>>, target |-> function] >>
             /\ ic_data'.num_args_tested = 1
             /\ HasCode(function, function_code')
             /\ function_code'[function] =
                   IF HasCode(function, function_code)
                   THEN function_code[function]
                   ELSE UnoptimizedCodeOf(function)
             /\ ret'.value = function
             /\ FunctionOf(function_code'[ret'.value]) = function ]_vars

\* C8 witness: a one-argument miss that compiled the resolved function and
\* recorded the first check of its IC data.
C8_Witness ==
  /\ ret.call.op = "InlineCacheMissHandlerOneArg"
  /\ ret.outcome = "return"
  /\ ret.compile_error = "null"
  /\ ret.value = ResolveDynamic(ret.call.class_ids[1])
  /\ ret.value # NullFunction
  /\ ic_data.checks = << [class_ids |-> ret.call.class_ids,
                          target |-> ret.value] >>
  /\ function_code[ret.value] = UnoptimizedCodeOf(ret.value)

\* C9: when ResolveDynamic finds no target for the receiver, the inline-cache
\* miss handler of any arity returns null, calls no compilation and leaves
\* the IC data unchanged.
C9_UnresolvedReturnsNull ==
  [][ ( /\ ret'.call.op \in InlineMissOps
        /\ ResolveDynamic(ret'.call.class_ids[1]) = NullFunction )
      => /\ ret'.outcome = "return"
         /\ ret'.value = NullFunction
         /\ ret'.compile_error = "none"
         /\ function_code' = function_code
         /\ ic_data' = ic_data ]_vars

\* C9 witness: a two-argument miss for an unresolvable receiver, on an IC
\* data that already holds a check, returned null.
C9_Witness ==
  /\ ret.call.op = "InlineCacheMissHandlerTwoArgs"
  /\ ResolveDynamic(ret.call.class_ids[1]) = NullFunction
  /\ ret.outcome = "return"
  /\ ret.value = NullFunction
  /\ Len(ic_data.checks) = 1

\* The entries of the megamorphic cache of the call's name and descriptor.
MegamorphicEntries == megamorphic_cache_table.entries

\* C10: when CompileFunction fails inside an inline-cache miss handler,
\* StaticCallMissHandlerTwoArgs, MegamorphicCacheMissHandler or
\* PatchStaticCall, the entry throws that very error, and no IC check is
\* added, no megamorphic cache entry is inserted, and no call site or
\* static-call-target table entry is patched.
C10_CompileErrorPropagated ==
  [][ ( /\ ret'.call.op \in CompilingOps
        /\ ret'.compile_error \in CompileErrors )
      => /\ ret'.outcome = "throw"
         /\ ret'.error = ret'.compile_error
         /\ ic_data' = ic_data
         /\ MegamorphicEntries' = MegamorphicEntries
         /\ call_site' = call_site
         /\ static_call_target_code' = static_call_target_code
         /\ function_code' = function_code ]_vars

\* C10 witness: compilation failed inside MegamorphicCacheMissHandler while
\* the IC data held a check.
C10_Witness ==
  /\ ret.call.op = "MegamorphicCacheMissHandler"
  /\ ret.outcome = "throw"
  /\ ret.error \in CompileErrors
  /\ ret.error = ret.compile_error
  /\ Len(ic_data.checks) > 0


\* C11: MegamorphicCacheMissHandler for a receiver of class c, when it
\* returns: if ResolveDynamicForReceiverClass finds a target, the cache maps
\* cid(c) to that target afterwards and keeps its other entries, the target
\* has code and that code's instructions are returned; if no target is found,
\* null is returned and the entries of the cache are unchanged.  The cache
\* holds one entry per class id.
C11_MegamorphicMiss ==
  [][ ( /\ ret'.call.op = "MegamorphicCacheMissHandler"
        /\ ret'.outcome = "return" )
      => LET cid == ret'.call.class_ids[1]
             target == ResolveDynamicForReceiverClass(cid)
         IN  /\ target # NullFunction =>
                   /\ MegamorphicEntries' =
                         { e \in MegamorphicEntries : e[1] # cid }
                            \cup {<<cid, target>>}
                   /\ HasCode(target, function_code')
                   /\ ret'.value = function_code'[target]
             /\ target = NullFunction =>
                   /\ ret'.value = NoCode
                   /\ MegamorphicEntries' = MegamorphicEntries
                   /\ function_code' = function_code
             /\ \A e1, e2 \in MegamorphicEntries' :
                   e1[1] = e2[1] => e1 = e2 ]_vars

\* C11 witness: after misses for the two resolvable classes the cache holds
\* exactly their two entries.
C11_Witness ==
  /\ ret.call.op = "MegamorphicCacheMissHandler"
  /\ ret.outcome = "return"
  /\ ret.value # NoCode
  /\ MegamorphicEntries =
        { <<cid, ResolveDynamicForReceiverClass(cid)>> : cid \in {1, 2} }


\* The receiver classes InstanceFunctionLookup takes the noSuchMethod path
\* for: no method and no getter of the target's name.
NoSuchMethodCids ==
  { cid \in ReceiverCids :
      ResolveDynamic(cid) = NullFunction /\ ~HasFieldGetter(cid) }

ChecksOfReceiver(cid) ==
  { i \in 1..Len(ic_data.checks) : ic_data.checks[i].class_ids[1] = cid }

\* C12: an IC data holds at most one check for a receiver class id that
\* InstanceFunctionLookup takes the noSuchMethod path for.
C12_Original ==
  \A cid \in NoSuchMethodCids : Cardinality(ChecksOfReceiver(cid)) <= 1

\* C12 (amended): an IC data with num_args_tested = 1 holds at most one check
\* for a receiver class id that InstanceFunctionLookup takes the noSuchMethod
\* path for; with num_args_tested > 1 it holds at most one such check per
\* class-id vector.
C12_NoSuchMethodOnce ==
  \A cid \in NoSuchMethodCids :
     /\ ic_data.num_args_tested = 1 => Cardinality(ChecksOfReceiver(cid)) <= 1
     /\ \A i, j \in ChecksOfReceiver(cid) :
           ic_data.checks[i].class_ids = ic_data.checks[j].class_ids => i = j

\* C12 witness: InstanceFunctionLookup took the noSuchMethod path on an IC
\* data that held the dispatcher check of the receiver class already, and
\* recorded nothing.
C12_Witness ==
  /\ ret.call.op = "InstanceFunctionLookup"
  /\ ret.call.class_ids[1] \in NoSuchMethodCids
  /\ ic_data.num_args_tested = 1
  /\ ret.call.number_of_checks = Len(ic_data.checks)
  /\ Cardinality(ChecksOfReceiver(ret.call.class_ids[1])) = 1


\* The dispatcher InstanceFunctionLookup is to invoke for a receiver class.
DispatcherOf(cid) ==
  IF ResolveGetter(cid) # "null" /\ ResolveGetter(cid) # "method extractor"
  THEN GetInvocationDispatcher(cid, kInvokeFieldDispatcher)
  ELSE GetInvocationDispatcher(cid, kNoSuchMethodDispatcher)

C15_PatchStaticCall ==
  [][ ( /\ ret'.call.op = "PatchStaticCall"
        /\ ret'.outcome = "return" )
      => LET pc == ret'.call.pc
             target_function == GetStaticCallTargetFunctionAt(pc)
             target_code == function_code'[target_function]
         IN  /\ HasCode(target_function, function_code')
             /\ FunctionOf(target_code) = target_function
             /\ call_site'[pc] = EntryPoint(target_code)
             /\ static_call_target_code'[pc] = target_code
             /\ ret'.value = target_code ]_vars

\* C15 witness: PatchStaticCall compiled the target and patched the call
\* site to the entry point of the new code.
C15_Witness ==
  /\ ret.call.op = "PatchStaticCall"
  /\ ret.outcome = "return"
  /\ ret.compile_error = "null"
  /\ ret.value = UnoptimizedCodeOf(GetStaticCallTargetFunctionAt(ret.call.pc))
  /\ call_site[ret.call.pc] = EntryPoint(ret.value)
  /\ static_call_target_code[ret.call.pc] = ret.value


-----------------------------------------------------------------------------
(* Claims about the patcher front-end and the optimizer, checked under     *)
(* CodeSpec                                                                *)

\* C16: FixCallersTarget on a stale static call at pc returns, and then the
\* target function has code and the call site at pc targets the entry point
\* of the returned code: if the function had code, the site is patched to
\* its current code and the table entry updated; if it had none, the code
\* retained in the table, which is unoptimized, is reattached to it.
C16_FixCallersTarget ==
  [][ ret'.call.op = "FixCallersTarget"
      => LET pc == ret'.call.pc
             f == GetStaticCallTargetFunctionAt(pc)
         IN  /\ ret'.outcome = "return"
             /\ HasCode(f, function_code')
             /\ call_site'[pc] = EntryPoint(ret'.value)
             /\ HasCode(f, function_code) =>
                   /\ ret'.value = function_code[f]
                   /\ function_code' = function_code
                   /\ static_call_target_code'[pc] = function_code[f]
             /\ ~HasCode(f, function_code) =>
                   /\ ret'.value = static_call_target_code[pc]
                   /\ ~IsOptimizedCode(static_call_target_code[pc])
                   /\ function_code'[f] = static_call_target_code[pc]
                   /\ static_call_target_code' = static_call_target_code
                   /\ call_site' = call_site ]_vars

\* C16 witness: FixCallersTarget reattached the retained code to a function
\* whose code was detached.
C16_Witness ==
  /\ ret.call.op = "FixCallersTarget"
  /\ ~ret.call.had_code
  /\ ret.outcome = "return"
  /\ ret.value = UnoptimizedCodeOf(GetStaticCallTargetFunctionAt(ret.call.pc))
  /\ function_code[GetStaticCallTargetFunctionAt(ret.call.pc)] = ret.value
  /\ call_site[ret.call.pc] = EntryPoint(ret.value)


\* A token of the filter: a non-empty run of characters between commas (or
\* the ends of the filter) that holds no comma.
IsToken(filter, i, j) ==
  /\ i <= j
  /\ \A k \in i..j : filter[k] # ","
  /\ i = 1 \/ filter[i - 1] = ","
  /\ j = Len(filter) \/ filter[j + 1] = ","

SomeTokenIsSubstring(filter, name) ==
  \E i, j \in 1..Len(filter) :
     /\ IsToken(filter, i, j)
     /\ \E k \in 1..Len(name) :
           /\ k + (j - i) <= Len(name)
           /\ \A d \in 0..(j - i) : name[k + d] = filter[i + d]

DebuggerForbids(f) == debugger.is_stepping \/ f \in debugger.breakpoints

\* The optimizability predicate as the specification states it.
Optimizable(f) ==
  /\ ~debugger.is_stepping
  /\ f \notin debugger.breakpoints
  /\ deoptimization_counter[f] < deoptimization_counter_threshold
  /\ \/ flags.optimization_filter_is_null
     \/ SomeTokenIsSubstring(flags.optimization_filter,
                             ToFullyQualifiedCString(f))
  /\ is_optimizable[f]

\* C17: CanOptimizeFunction(f) returns true iff the debugger is not stepping
\* and has no breakpoint on f, f's deoptimization counter is below
\* deoptimization_counter_threshold, some comma-separated token of
\* optimization_filter (if it is set) is a substring of f's fully qualified
\* name, and f.is_optimizable() is true.
C17_CanOptimize ==
  [][ ret'.call.op = "OptimizeInvokedFunction"
      => (ret'.can_optimize <=> Optimizable(ret'.call.function)) ]_vars

\* C17 witness: CanOptimizeFunction returned true under a filter whose second
\* token is a substring of the function's name.
C17_Witness ==
  /\ ret.call.op = "OptimizeInvokedFunction"
  /\ ret.can_optimize
  /\ flags.optimization_filter = <<"c", ",", "b">>
  /\ ~flags.optimization_filter_is_null

\* The last entry evaluated CanOptimizeFunction.
AskedCanOptimize(r) ==
  \/ r.call.op = "OptimizeInvokedFunction"
  \/ /\ r.call.op = "StackOverflow"
     /\ ~r.call.overflow
     /\ r.call.interrupt_bits = {}
     /\ flags.use_osr

\* The entry does nothing to the usage counter after the predicate held.
OnlyPredicateWrites(r) ==
  r.call.op = "StackOverflow" \/ r.outcome = "throw"

\* C18: whenever a check of the optimizability predicate fails, the
\* function's usage counter is set to the large negative sentinel; when the
\* predicate holds it leaves the usage counter unchanged.
C18_Original ==
  [][ AskedCanOptimize(ret')
      => LET f == ret'.call.function
         IN  /\ ~Optimizable(f) => usage_counter'[f] = kLowInvocationCount
             /\ (Optimizable(f) /\ OnlyPredicateWrites(ret'))
                   => usage_counter' = usage_counter ]_vars

\* C18 (amended): when the debugger is stepping or has a breakpoint on the
\* function, the usage counter is set to 0; when another check fails, it is
\* set to the large negative sentinel; when the predicate holds it leaves the
\* usage counter unchanged.
C18_UsageCounter ==
  [][ AskedCanOptimize(ret')
      => LET f == ret'.call.function
         IN  /\ DebuggerForbids(f) => usage_counter'[f] = 0
             /\ (~DebuggerForbids(f) /\ ~Optimizable(f))
                   => usage_counter'[f] = kLowInvocationCount
             /\ (Optimizable(f) /\ OnlyPredicateWrites(ret'))
                   => usage_counter' = usage_counter
             /\ \A g \in Functions \ {f} :
                   usage_counter'[g] = usage_counter[g] ]_vars

\* C18 witness: StackOverflow asked for a function the debugger has a
\* breakpoint on, and the usage counter is 0.
C18_Witness ==
  /\ AskedCanOptimize(ret)
  /\ ret.call.op = "StackOverflow"
  /\ ret.call.function \in debugger.breakpoints
  /\ ~debugger.is_stepping
  /\ usage_counter[ret.call.function] = 0


\* C19: after a StackOverflow invocation in which the OSR compilation made
\* new optimized code, the function's current code is its unoptimized code,
\* whatever its current code was on entry, and the pc of the top frame is the
\* entry point of the new optimized code.
C19_Original ==
  [][ ( /\ ret'.call.op = "StackOverflow"
        /\ ret'.compiled = "ok" )
      => LET f == ret'.call.function
         IN  /\ function_code'[f] = UnoptimizedCodeOf(f)
             /\ ~IsOptimizedCode(function_code'[f])
             /\ frame_pc' = EntryPoint(NewOptimizedCode(f, function_code))
      ]_vars

\* The conditions under which StackOverflow tries on-stack replacement.
OsrConditions(r) ==
  /\ ~r.call.overflow
  /\ r.call.interrupt_bits = {}
  /\ flags.use_osr
  /\ Optimizable(r.call.function)

\* C20: StackOverflow calls the OSR compilation only in an invocation where
\* the stack has not overflowed, the drained interrupt bits are all zero,
\* use_osr is set and CanOptimizeFunction holds for the function of the top
\* Dart frame; in every other invocation no optimizing compilation is called
\* and the frame's pc and the function's current code are unchanged.
C20_OsrOnlyWhenEnabled ==
  [][ ret'.call.op = "StackOverflow"
      => /\ ret'.compiled # "none" => OsrConditions(ret')
         /\ ~OsrConditions(ret') =>
               /\ ret'.compiled = "none"
               /\ frame_pc' = frame_pc
               /\ function_code' = function_code ]_vars

\* C20 witness: an invocation with pending interrupts returned, after an
\* earlier one had replaced the frame's code on the stack.
C20_Witness ==
  /\ ret.call.op = "StackOverflow"
  /\ ret.call.interrupt_bits # {}
  /\ ~ret.call.overflow
  /\ flags.use_osr
  /\ Optimizable(ret.call.function)
  /\ ret.compiled = "none"
  /\ frame_pc = ret.call.pc
  /\ frame_pc # InitialFramePc

\* C23 (as stated): OptimizeInvokedFunction(fn) triggers an optimizing
\* compilation exactly when CanOptimizeFunction(fn) holds, leaves fn's usage
\* counter equal to 0 on every normal return, and returns the code that is
\* fn's current code at exit.
C23_Original ==
  [][ ret'.call.op = "OptimizeInvokedFunction"
      => LET f == ret'.call.function
         IN  /\ ret'.compiled # "none" <=> Optimizable(f)
             /\ ret'.outcome = "return" =>
                   /\ usage_counter'[f] = 0
                   /\ ret'.value = function_code'[f] ]_vars

\* C23 (amended): the usage counter is 0 on every normal return on which the
\* compilation was triggered; the rest as stated.
C23_OptimizeInvoked ==
  [][ ret'.call.op = "OptimizeInvokedFunction"
      => LET f == ret'.call.function
         IN  /\ ret'.compiled # "none" <=> Optimizable(f)
             /\ ret'.outcome = "return" =>
                   /\ ret'.compiled # "none" => usage_counter'[f] = 0
                   /\ ret'.value = function_code'[f] ]_vars

\* A reoptimization was triggered for a function with a non-zero usage
\* counter, and returned the new code.
C23_Witness ==
  /\ ret.call.op = "OptimizeInvokedFunction"
  /\ ret.outcome = "return"
  /\ ret.compiled = "ok"
  /\ ret.call.usage_counter # 0
  /\ ret.value = ReoptimizedCodeOf(ret.call.function)
  /\ usage_counter[ret.call.function] = 0

-----------------------------------------------------------------------------
(* Claims about the interrupt poll (PollSpec)                              *)

\* C21: a true stack overflow takes priority over all interrupts: when the
\* stack position is below the saved limit StackOverflow throws the
\* preallocated stack-overflow exception, the pending interrupt bits stay
\* set, no interrupt is dispatched, and neither OSR nor a compilation runs
\* (the frame's pc, the functions' codes and usage counters are untouched).
C21_OverflowFirst ==
  [][ ( /\ ret'.call.op = "StackOverflow"
        /\ ret'.call.overflow )
      => /\ ret'.outcome = "throw"
         /\ ret'.error = "stack_overflow"
         /\ interrupts' = interrupts
         /\ ret'.dispatched = <<>>
         /\ ret'.compiled = "none"
         /\ frame_pc' = frame_pc
         /\ function_code' = function_code
         /\ usage_counter' = usage_counter ]_vars

\* A stack overflow was thrown while interrupts were pending, in a state
\* where OSR would have been tried.
C21_Witness ==
  /\ ret.call.op = "StackOverflow"
  /\ ret.call.overflow
  /\ ret.outcome = "throw"
  /\ Cardinality(interrupts) >= 2
  /\ flags.use_osr
  /\ Optimizable(ret.call.function)

\* The kinds in bits, in the order scavenge, message, API, VM-status.
InOrder(bits) == SelectSeq(InterruptOrder, LAMBDA k : k \in bits)

\* C22 (as stated): when the stack has not overflowed, StackOverflow drains
\* all the isolate's interrupt bits at once and, before it returns, has run
\* the handler of every kind whose bit it drained, in the order scavenge,
\* message, API, VM-status.
C22_Original ==
  [][ ( /\ ret'.call.op = "StackOverflow"
        /\ ~ret'.call.overflow )
      => /\ interrupts' = {}
         /\ ret'.call.interrupt_bits = interrupts
         /\ ret'.outcome = "return" =>
               ret'.dispatched = InOrder(interrupts) ]_vars

-----------------------------------------------------------------------------
(* Claims about the deoptimizer (DeoptSpec)                                *)

\* A step of DeoptimizeAt called on its own: the thread is in no stack walk
\* and not in the stub, before and after.
DeoptimizeAtStep ==
  /\ Idle
  /\ Idle'
  /\ ret'.call.op = "DeoptimizeAt"

\* C24: after DeoptimizeAt(code, pc) returns, code is not alive and the call
\* site at pc is patched to code's lazy-deopt pc, which is not 0; the alive
\* flag of no other code and no other call site changes.
C24_DeoptimizeAt ==
  [][ ( /\ DeoptimizeAtStep
        /\ ret'.outcome = "return" )
      => LET code == ret'.call.code
             pc == ret'.call.pc
         IN  /\ is_alive'[code] = FALSE
             /\ inserted_call'[pc] = GetLazyDeoptPc(code)
             /\ inserted_call'[pc] # 0
             /\ \A c \in DOMAIN is_alive \ {code} :
                   is_alive'[c] = is_alive[c]
             /\ \A q \in DOMAIN inserted_call \ {pc} :
                   inserted_call'[q] = inserted_call[q]
             /\ call_site' = call_site ]_vars

\* DeoptimizeAt returned for one of two frames of the stack that run
\* different optimized code, the other one alive and unpatched.
C24_Witness ==
  /\ ret.call.op = "DeoptimizeAt"
  /\ ret.outcome = "return"
  /\ Idle
  /\ is_alive[ret.call.code] = FALSE
  /\ inserted_call[ret.call.pc] = GetLazyDeoptPc(ret.call.code)
  /\ \E i \in 1..Len(stack) :
        /\ IsOptimizedCode(stack[i].code)
        /\ stack[i].code # ret.call.code
        /\ is_alive[stack[i].code]
        /\ inserted_call[stack[i].pc] = 0

\* C25: after DeoptimizeAt(code, pc) returns, the current code of code's
\* function is the function's unoptimized code, whatever it was on entry:
\* code itself, another optimized code, or the unoptimized code.
C25_SwitchedToUnoptimized ==
  [][ ( /\ DeoptimizeAtStep
        /\ ret'.outcome = "return" )
      => LET f == FunctionOf(ret'.call.code)
         IN  /\ function_code'[f] = UnoptimizedCodeOf(f)
             /\ \A g \in Functions \ {f} :
                   function_code'[g] = function_code[g] ]_vars

\* DeoptimizeAt returned for a code whose function's current code on entry
\* was another optimized code.
C25_Witness ==
  /\ ret.call.op = "DeoptimizeAt"
  /\ ret.outcome = "return"
  /\ Idle
  /\ IsOptimizedCode(ret.call.current)
  /\ ret.call.current # ret.call.code
  /\ function_code[FunctionOf(ret.call.code)] =
       UnoptimizedCodeOf(FunctionOf(ret.call.code))

\* DeoptimizeAt is called with the code and pc of the call that returned
\* last.
SecondDeoptimizeAt ==
  /\ DeoptimizeAtStep
  /\ ret.call.op = "DeoptimizeAt"
  /\ ret.outcome = "return"
  /\ ret'.call.code = ret.call.code
  /\ ret'.call.pc = ret.call.pc

\* A step of a DeoptimizeAll() that was called when the entry that returned
\* last was DeoptimizeAll().
SecondDeoptimizeAll ==
  /\ ret.call.op = "DeoptimizeAll"
  /\ walk.op = "DeoptimizeAll"

\* C26: targeted deoptimization is idempotent: DeoptimizeAt(code, pc) run
\* again, and DeoptimizeAll() run again, leave the alive flags, the patched
\* call sites and every function's current code as the first run left them,
\* and fail no assertion.
C26_Idempotent ==
  [][ /\ SecondDeoptimizeAt =>
            /\ ret'.outcome = "return"
            /\ UNCHANGED <<is_alive, inserted_call, function_code>>
      /\ SecondDeoptimizeAll =>
            /\ UNCHANGED <<is_alive, inserted_call, function_code, stack>>
            /\ ( /\ walk.frame # NullFrame
                 /\ IsOptimizedCode(stack[walk.frame].code) )
               => DeoptimizeAt(stack[walk.frame].code, stack[walk.frame].pc,
                               function_code, is_alive,
                               inserted_call).outcome = "return"
            /\ walk' = NoWalk => ret'.outcome = "return" ]_vars

\* The second DeoptimizeAll() in a row has visited two frames that run
\* optimized code.
C26_Witness ==
  /\ SecondDeoptimizeAll
  /\ Len(stack) = 2
  /\ walk.frame = NullFrame
  /\ \A i \in 1..2 :
        /\ IsOptimizedCode(stack[i].code)
        /\ ~is_alive[stack[i].code]
        /\ inserted_call[stack[i].pc] = GetLazyDeoptPc(stack[i].code)

\* The frame i of the stack runs optimized code that DeoptimizeAt has dealt
\* with: the code is not alive and the frame's pc is patched to the code's
\* lazy-deopt jump.
Deoptimized(i) ==
  /\ ~is_alive[stack[i].code]
  /\ inserted_call[stack[i].pc] = GetLazyDeoptPc(stack[i].code)

\* The codes and the pcs of the frames for which want holds.
CodesOfFrames(want(_)) ==
  { stack[i].code : i \in { j \in 1..Len(stack) : want(j) } }

PcsOfFrames(want(_)) ==
  { stack[i].pc : i \in { j \in 1..Len(stack) : want(j) } }

\* Only the codes and call sites of the frames for which want holds change
\* in this step, and no frame does.
TouchesOnly(want(_)) ==
  /\ stack' = stack
  /\ \A c \in DOMAIN is_alive \ CodesOfFrames(want) :
        is_alive'[c] = is_alive[c]
  /\ \A pc \in DOMAIN inserted_call \ PcsOfFrames(want) :
        inserted_call'[pc] = inserted_call[pc]
  /\ call_site' = call_site

RunsOptimizedCode(i) == IsOptimizedCode(stack[i].code)

\* C27: DeoptimizeAll() terminates and applies DeoptimizeAt to every frame
\* that runs optimized code and to no other: when it has returned each such
\* frame's code is not alive and its pc is patched to the lazy-deopt jump,
\* and no step of it changes the stack, the alive flag of another code or
\* another call site.
C27_DeoptimizeAll ==
  /\ [][ walk.op = "DeoptimizeAll" =>
           /\ TouchesOnly(RunsOptimizedCode)
           /\ walk' = NoWalk =>
                 /\ ret'.call.op = "DeoptimizeAll"
                 /\ ret'.outcome = "return"
                 /\ \A i \in 1..Len(stack) :
                       RunsOptimizedCode(i) => Deoptimized(i)' ]_vars
  /\ (walk.op = "DeoptimizeAll") ~> (walk = NoWalk)

\* DeoptimizeAll() has returned on a stack of an untouched frame in
\* unoptimized code above a frame in optimized code.
C27_Witness ==
  /\ ret.call.op = "DeoptimizeAll"
  /\ Idle
  /\ Len(stack) = 2
  /\ ~RunsOptimizedCode(1)
  /\ is_alive[stack[1].code]
  /\ inserted_call[stack[1].pc] = 0
  /\ RunsOptimizedCode(2)
  /\ Deoptimized(2)

\* The frame i runs optimized code of a function whose owner's class id is
\* in the classes of the running DeoptimizeIfOwner.
OwnedOptimizedCode(i) ==
  /\ RunsOptimizedCode(i)
  /\ OwnerCid(stack[i].code) \in walk.classes

\* C28 (as stated): DeoptimizeIfOwner(classes) applies DeoptimizeAt to
\* exactly the frames that run optimized code of a function whose owning
\* class id is in classes: it gets to return, every such frame is then
\* deoptimized, and no step of it changes the stack, the alive flag of
\* another code or another call site.
C28_Original ==
  /\ [][ walk.op = "DeoptimizeIfOwner" =>
           /\ TouchesOnly(OwnedOptimizedCode)
           /\ walk' = NoWalk =>
                 /\ ret'.call.op = "DeoptimizeIfOwner"
                 /\ ret'.outcome = "return"
                 /\ \A i \in 1..Len(stack) :
                       OwnedOptimizedCode(i) => Deoptimized(i)' ]_vars
  /\ (walk.op = "DeoptimizeIfOwner") ~> (walk = NoWalk)

DeoptPhases ==
  {"DeoptimizeCopyFrame", "DeoptimizeFillFrame", "DeoptimizeMaterialize"}

\* C29: the isolate's deopt context is non-null exactly between the return
\* of DeoptimizeCopyFrame and the teardown in DeoptimizeMaterialize: it is
\* null when DeoptimizeCopyFrame is entered, non-null when DeoptimizeFillFrame
\* and DeoptimizeMaterialize are entered, and null after DeoptimizeMaterialize
\* has returned.
C29_ContextLifetime ==
  /\ deopt_context.is_null <=> stub = "idle"
  /\ ret.call.op = "DeoptimizeCopyFrame" => ret.call.context.is_null
  /\ ret.call.op \in {"DeoptimizeFillFrame", "DeoptimizeMaterialize"} =>
        ~ret.call.context.is_null
  /\ ret.call.op = "DeoptimizeMaterialize" => deopt_context.is_null

\* A second deoptimization has installed its context after the first one
\* was torn down: the frame below a frame that was deoptimized and has
\* returned is in the stub.
C29_Witness ==
  /\ ret.call.op = "DeoptimizeFillFrame"
  /\ ret.outcome = "return"
  /\ ~deopt_context.is_null
  /\ deopt_context.code = stack[1].code
  /\ Len(stack) = 1
  /\ \E c \in DOMAIN is_alive : c # stack[1].code /\ ~is_alive[c]

\* What a step does to the deoptimization stub: it enters the copy phase
\* from outside the stub only, the fill phase after the copy phase only, and
\* leaves after the fill phase only, for one frame and one context; while the
\* stub runs, nothing else does.
PhaseSteps ==
  /\ (stub # "copied" /\ stub' = "copied") =>
        /\ stub = "idle"
        /\ ret'.call.op = "DeoptimizeCopyFrame"
        /\ ret'.call.code = stack[1].code
        /\ deopt_context'.code = stack[1].code
  /\ (stub # "filled" /\ stub' = "filled") =>
        /\ stub = "copied"
        /\ ret.call.op = "DeoptimizeCopyFrame"
        /\ ret'.call.op = "DeoptimizeFillFrame"
        /\ ret'.outcome = "return"
        /\ ret'.call.context = deopt_context
        /\ ret'.call.context.code = ret.call.code
        /\ ret'.call.pc = ret.call.pc
  /\ (stub # "idle" /\ stub' = "idle") =>
        /\ stub = "filled"
        /\ ret.call.op = "DeoptimizeFillFrame"
        /\ ret'.call.op = "DeoptimizeMaterialize"
        /\ ret'.call.code = ret.call.code
        /\ ret'.call.pc = ret.call.pc
        /\ deopt_context'.is_null
        /\ stack' = [stack EXCEPT ![1] = UnoptimizedFrame(stack[1])]
  /\ stub # "idle" =>
        /\ stub' # stub
        /\ ret'.call.op \in DeoptPhases
        /\ UNCHANGED <<is_alive, inserted_call, function_code, walk>>
        /\ (stub' # "idle" => stack' = stack)

\* C30: lazy deoptimization runs its three phases once each in the order
\* copy, fill, materialize for the frame returned to, with nothing else in
\* between; the fill phase works on the context the copy phase made for the
\* frame's optimized code; the sequence gets to its end, the context
\* destroyed and the frame in unoptimized code.
C30_PhaseOrder ==
  /\ [][PhaseSteps]_vars
  /\ (stub = "copied") ~> (stub = "idle" /\ deopt_context.is_null)

\* The three phases have run for a frame that DeoptimizeAt had patched: the
\* frame is in its function's unoptimized code and the context is gone.
C30_Witness ==
  /\ ret.call.op = "DeoptimizeMaterialize"
  /\ stub = "idle"
  /\ deopt_context.is_null
  /\ ret.call.context.code = ret.call.code
  /\ inserted_call[ret.call.pc] = GetLazyDeoptPc(ret.call.code)
  /\ ~is_alive[ret.call.code]
  /\ stack[1] = UnoptimizedFrame([code |-> ret.call.code, pc |-> ret.call.pc])

-----------------------------------------------------------------------------
(* Allocation entries: AllocateObject and AllocateObjectWithBoundsCheck    *)

\* Largest length of a type-argument vector.
MaxLength == 3

\* A null vector (a raw type).
NullVector == [kind |-> "null"]

\* Flat vectors: their length, whether they are instantiated and, for an
\* uninstantiated one, whether it is the identity on the instantiator.
FlatVectors ==
  { v \in [kind : {"flat"}, length : 1..MaxLength, instantiated : BOOLEAN,
           identity : BOOLEAN] : v.identity => ~v.instantiated }

\* InstantiatedTypeArguments::New(type_arguments, instantiator): the lazy
\* pair.
NewInstantiatedTypeArguments(type_args, instantiator) ==
  [kind |-> "lazy", uninstantiated |-> type_args,
   instantiator |-> instantiator]

IsNull(v) == v.kind = "null"

\* AbstractTypeArguments::IsInstantiated: a null vector and a lazy pair stand
\* for concrete types.
IsInstantiated(v) == IF v.kind = "flat" THEN v.instantiated ELSE TRUE

\* AbstractTypeArguments::Length; the length of a lazy pair is that of its
\* uninstantiated vector.
Length(v) ==
  IF v.kind = "flat" THEN v.length
  ELSE IF v.kind = "lazy" THEN v.uninstantiated.length
  ELSE 0

\* AbstractTypeArguments::IsUninstantiatedIdentity
IsUninstantiatedIdentity(v) == v.kind = "flat" /\ v.identity

\* The lazy pairs an earlier allocation has made.
LazyPairs ==
  { NewInstantiatedTypeArguments(u, i) :
      u \in { v \in FlatVectors : ~v.instantiated /\ ~v.identity },
      i \in {NullVector} \cup { v \in FlatVectors : v.instantiated } }

\* Arg1: the type arguments of the object to allocate.
AllocTypeArguments == {NullVector} \cup FlatVectors \cup LazyPairs

\* Smi StubCode::kNoInstantiator, passed as Arg2 when there is no
\* instantiator.
kNoInstantiator == [kind |-> "kNoInstantiator"]

\* Arg2: the type arguments of the instantiator, or kNoInstantiator.
AllocInstantiators == {kNoInstantiator} \cup AllocTypeArguments

\* Arg0: classes with no, one and two type arguments.
AllocClasses == {1, 2, 3}

\* caller_frame->GetTokenPos()
CallerTokenPositions == {5, 9}

\* What InstantiateFrom sets bound_error to.
BoundOutcomes == {"null", "bound error"}

\* type_arguments.InstantiateFrom(instantiator, &bound_error): a flat
\* instantiated vector of the same length, and the bound error if a bound
\* is not met.
InstantiateFromInstantiator(type_args, instantiator, bound_outcome) ==
  [type_arguments |-> [kind |-> "flat", length |-> Length(type_args),
                       instantiated |-> TRUE, identity |-> FALSE],
   bound_error |-> bound_outcome]

\* Instance::New(cls): a new instance, without type arguments.
NewInstance(cls) == [cls |-> cls, type_arguments |-> NullVector]

\* instance.SetTypeArguments(type_arguments)
SetTypeArguments(instance, type_args) ==
  [instance EXCEPT !.type_arguments = type_args]

\* Mutant: the length of the vector is not looked at.
NoInstantiatorChecks_AnyLength(cls, type_args) ==
  IsNull(type_args) \/ IsInstantiated(type_args)

\* The assertion on the vector passed with kNoInstantiator: null, or
\* instantiated and at least as long as the class needs.
NoInstantiatorChecks(cls, type_args) ==
  \/ IsNull(type_args)
  \/ /\ IsInstantiated(type_args)
     /\ Length(type_args) >= NumTypeArguments(cls)

\* The assertions on the vector and the instantiator when there is one: the
\* vector is uninstantiated, has the length the class needs and is not the
\* identity on a non-null instantiator, which is instantiated.
InstantiatorChecks(cls, type_args, instantiator) ==
  /\ ~IsInstantiated(type_args)
  /\ Length(type_args) = NumTypeArguments(cls)
  /\ IsNull(instantiator) \/ IsInstantiated(instantiator)
  /\ IsNull(instantiator) \/ ~IsUninstantiatedIdentity(type_args)

\* DEFINE_RUNTIME_ENTRY(AllocateObject, 3): the outcome and the instance
\* returned.
AllocateObject(cls, type_args, instantiator) ==
  LET instance == NewInstance(cls)
  IN  IF NumTypeArguments(cls) = 0
      THEN IF IsNull(type_args)
           THEN [outcome |-> "return", instance |-> instance]
           ELSE [outcome |-> "assert"]
      ELSE IF instantiator = kNoInstantiator
      THEN IF NoInstantiatorChecks(cls, type_args)
           THEN [outcome |-> "return",
                 instance |-> SetTypeArguments(instance, type_args)]
           ELSE [outcome |-> "assert"]
      ELSE IF InstantiatorChecks(cls, type_args, instantiator)
      THEN [outcome |-> "return",
            instance |-> SetTypeArguments(instance,
                            NewInstantiatedTypeArguments(type_args,
                                                         instantiator))]
      ELSE [outcome |-> "assert"]

\* The type error of a failed bound check: three empty names and the
\* message of the bound error, at the caller's token position.
BoundTypeError(location, bound_error) ==
  [location |-> location,
   type_error |-> CreateAndThrowTypeError(SymbolsEmpty, SymbolsEmpty,
                                          SymbolsEmpty, bound_error)]

\* Mutant: the vector is instantiated lazily, as AllocateObject does, and no
\* bound is checked.
AllocateObjectWithBoundsCheck_Lazy(cls, type_args, instantiator, bound_outcome, location) ==
  IF NumTypeArguments(cls) = 0 THEN [outcome |-> "assert"]
  ELSE AllocateObject(cls, type_args, instantiator)

\* DEFINE_RUNTIME_ENTRY(AllocateObjectWithBoundsCheck, 3): the outcome and
\* the instance returned or the error thrown.
AllocateObjectWithBoundsCheck(cls, type_args, instantiator, bound_outcome, location) ==
  LET instance == NewInstance(cls)
      r == InstantiateFromInstantiator(type_args, instantiator, bound_outcome)
  IN  IF NumTypeArguments(cls) = 0
      THEN [outcome |-> "assert"]
      ELSE IF instantiator = kNoInstantiator
      THEN IF NoInstantiatorChecks(cls, type_args)
           THEN [outcome |-> "return",
                 instance |-> SetTypeArguments(instance, type_args)]
           ELSE [outcome |-> "assert"]
      ELSE IF ~InstantiatorChecks(cls, type_args, instantiator)
      THEN [outcome |-> "assert"]
      ELSE IF r.bound_error # "null"
      THEN [outcome |-> "throw",
            error |-> BoundTypeError(location, r.bound_error)]
      ELSE IF ~(IsNull(r.type_arguments) \/ IsInstantiated(r.type_arguments))
      THEN [outcome |-> "assert"]
      ELSE [outcome |-> "return",
            instance |-> SetTypeArguments(instance, r.type_arguments)]

\* The arguments compiled code passes to an allocation entry.
AllocArguments ==
  [cls : AllocClasses, type_arguments : AllocTypeArguments,
   instantiator : AllocInstantiators]

\* No allocation entry has run: the arguments are set up.
AllocPending(r) == r.call.op = "none"

\* A call of AllocateObject from compiled code.
AllocateObjectCall ==
  /\ AllocPending(ret)
  /\ LET a == ret.arguments
     IN  ret' = [call |-> [op |-> "AllocateObject", cls |-> a.cls,
                           type_arguments |-> a.type_arguments,
                           instantiator |-> a.instantiator],
                 result |-> AllocateObject(a.cls, a.type_arguments,
                                           a.instantiator)]

\* A call of AllocateObjectWithBoundsCheck from compiled code.
AllocateObjectWithBoundsCheckCall ==
  \E bound_outcome \in BoundOutcomes, location \in CallerTokenPositions :
    /\ AllocPending(ret)
    /\ LET a == ret.arguments
       IN  ret' = [call |-> [op |-> "AllocateObjectWithBoundsCheck",
                             cls |-> a.cls,
                             type_arguments |-> a.type_arguments,
                             instantiator |-> a.instantiator,
                             bound_error |-> bound_outcome,
                             location |-> location],
                   result |-> AllocateObjectWithBoundsCheck(a.cls,
                                 a.type_arguments, a.instantiator,
                                 bound_outcome, location)]

AllocInit ==
  /\ ret \in [call : {[op |-> "none"]}, outcome : {"none"},
              arguments : AllocArguments]
  /\ TypeQuiescent
  /\ ICQuiescent
  /\ OptQuiescent
  /\ DeoptQuiescent

AllocNext ==
  \/ AllocateObjectCall
       /\ UNCHANGED <<type_vars, ic_vars, opt_vars, deopt_vars>>
  \/ AllocateObjectWithBoundsCheckCall
       /\ UNCHANGED <<type_vars, ic_vars, opt_vars, deopt_vars>>

AllocSpec == AllocInit /\ [][AllocNext]_vars

-----------------------------------------------------------------------------
(* The specification of the tiering of code: the optimizer, the call       *)
(* patchers and the deoptimizer work on the same functions                 *)

\* The stacks before the first entry: no frame, a frame of each function, and
\* two frames of which the caller runs optimized or unoptimized code.
TierStacks ==
  LET frame(code) == [code |-> code, pc |-> EntryPoint(code) + 4]
  IN  { <<>>,
        <<frame(OptimizedCodeOf(2))>>,
        <<frame(OptimizedCodeOf(1)), frame(UnoptimizedCodeOf(2))>>,
        <<frame(UnoptimizedCodeOf(2)), frame(OptimizedCodeOf(1))>> }

TierInit ==
  /\ stack \in TierStacks
  /\ function_code \in
       { fc \in [Functions -> 0..6] :
            /\ fc[1] \in {UnoptimizedCodeOf(1), OptimizedCodeOf(1)}
            /\ fc[2] \in InitialCodes(2) }
  /\ \E st \in InitialCallSites :
        /\ function_code[2] = NoCode => ~IsOptimizedCode(st.code)
        /\ call_site = [pc \in Pcs |-> st.site]
        /\ static_call_target_code = [pc \in Pcs |-> st.code]
  /\ usage_counter = [f \in Functions |-> 7]
  /\ deoptimization_counter = [f \in Functions |-> 0]
  /\ is_optimizable = [f \in Functions |-> TRUE]
  /\ debugger = [is_stepping |-> FALSE, breakpoints |-> {}]
  /\ frame_pc = InitialFramePc
  /\ flags = [use_osr |-> TRUE, optimization_filter |-> <<>>,
              optimization_filter_is_null |-> TRUE]
  /\ interrupts = {}
  /\ is_alive = [c \in 1..6 |-> TRUE]
  /\ inserted_call = [pc \in DeoptPcs |-> 0]
  /\ deopt_context = NullContext
  /\ stub = "idle"
  /\ walk = NoWalk
  /\ ic_data = [kind |-> "instance", num_args_tested |-> 1, checks |-> <<>>]
  /\ megamorphic_cache_table = NoMegamorphicCache
  /\ ret = NoCall
  /\ TypeQuiescent

\* One thread per isolate: an entry of the optimizer or of the patchers is
\* called outside a stack walk.
TierNext ==
  \/ Idle /\ PatchStaticCall /\ UNCHANGED <<type_vars, opt_vars, deopt_vars>>
  \/ Idle /\ FixCallersTarget /\ UNCHANGED <<type_vars, opt_vars, deopt_vars>>
  \/ Idle /\ OptimizeInvokedFunction /\ UNCHANGED <<type_vars, deopt_vars>>
  \/ Idle /\ StackOverflow /\ UNCHANGED <<type_vars, deopt_vars>>
  \/ DeoptimizeAtFrame /\ UNCHANGED <<type_vars, opt_vars>>
  \/ DeoptimizeAll /\ UNCHANGED <<type_vars, opt_vars>>
  \/ DeoptimizeAllLoop /\ UNCHANGED <<type_vars, opt_vars>>
  \/ DeoptimizeAllReturn /\ UNCHANGED <<type_vars, opt_vars>>

TierSpec == TierInit /\ [][TierNext]_vars

-----------------------------------------------------------------------------
(* Claims about the current code of a function                             *)

\* The code is the unoptimized code of f or optimized code whose function is
\* f.
CodeOfFunction(code, f) ==
  \/ code = UnoptimizedCodeOf(f)
  \/ IsOptimizedCode(code) /\ FunctionOf(code) = f

\* C31: after any sequence of OptimizeInvokedFunction, StackOverflow (OSR),
\* DeoptimizeAt / DeoptimizeAll, PatchStaticCall and FixCallersTarget (code
\* reattachment), the current code of every function that has code is that
\* function's unoptimized code or optimized code whose function is that
\* function.
C31_CurrentCode ==
  \A f \in Functions :
    HasCode(f, function_code) => CodeOfFunction(function_code[f], f)

\* C31 witness: DeoptimizeAll has switched function 1 to its unoptimized
\* code after on-stack replacement had patched the frame of function 2, whose
\* current code the call site enters.
C31_Witness ==
  /\ ret.call.op = "DeoptimizeAll"
  /\ walk = NoWalk
  /\ function_code[1] = UnoptimizedCodeOf(1)
  /\ HasCode(2, function_code)
  /\ frame_pc # InitialFramePc
  /\ \E pc \in Pcs : call_site[pc] = EntryPoint(function_code[2])
  /\ \E c \in 1..6 : ~is_alive[c]

-----------------------------------------------------------------------------
(* Claims about the OSR bail-out                                           *)

\* The code of function f after the compilation that the call of r made.
CodeAfterCompilation(r, f) ==
  CompileOptimizedFunction(f, function_code, r.compiled).fc[f]

\* C37: when the OSR compilation in StackOverflow leaves the function's
\* current code identical to the code it had before the compilation, the
\* frame's pc is not rewritten and the function's current code is unchanged;
\* when the compilation returns an error, the error is propagated and the
\* entry changes neither the pc nor the current code.
C37_OsrBailout ==
  [][ (ret'.call.op = "StackOverflow" /\ ret'.compiled # "none")
      => LET f == ret'.call.function
         IN  /\ ( /\ ret'.compiled \notin CompileErrors
                  /\ CodeAfterCompilation(ret', f) = function_code[f] )
                => /\ ret'.outcome = "return"
                   /\ frame_pc' = frame_pc
                   /\ function_code' = function_code
             /\ ret'.compiled \in CompileErrors
                => /\ ret'.outcome = "throw"
                   /\ ret'.error = PropagateError(ret'.compiled)
                   /\ frame_pc' = frame_pc
                   /\ function_code' = function_code ]_vars

\* C37 witness: the compilation bailed out in a frame that an earlier
\* invocation had patched; the pc and the code are the ones of the call.
C37_Witness ==
  /\ ret.call.op = "StackOverflow"
  /\ ret.compiled = "bailout"
  /\ ret.outcome = "return"
  /\ frame_pc = ret.call.pc
  /\ frame_pc # InitialFramePc
  /\ function_code[ret.call.function] = ret.call.code

-----------------------------------------------------------------------------
(* Claims about the termination of DeoptimizeIfOwner                       *)

\* C34 (as stated): DeoptimizeIfOwner(classes) terminates on every finite
\* stack, whatever its frames run and whoever owns them: a walk that has
\* started gets to its end, and no iteration of the loop leaves the walk at
\* the frame it has just visited.
C34_Original ==
  /\ [][ (walk.op = "DeoptimizeIfOwner" /\ walk.frame # NullFrame)
         => walk'.frame # walk.frame ]_vars
  /\ (walk.op = "DeoptimizeIfOwner") ~> (walk = NoWalk)

-----------------------------------------------------------------------------
(* Claims about interrupts posted while the mutator polls                  *)

\* The kinds whose handler the invocation of r ran.
HandledBy(r) == { r.dispatched[i] : i \in 1..Len(r.dispatched) }

\* C39 (as stated): no interrupt is lost.  Only a poll clears bits of the
\* isolate, every bit a poll clears has its handler run in that invocation,
\* also when the API interrupt callback returns true and when a stack
\* overflow is thrown, and every other bit posted is still pending.
C39_Original ==
  [][ IF ret'.call.op = "StackOverflow"
      THEN /\ interrupts' \subseteq interrupts
           /\ (interrupts \ interrupts') \subseteq HandledBy(ret')
      ELSE interrupts \subseteq interrupts' ]_vars

-----------------------------------------------------------------------------
(* Claims about repeated checks of an IC data                              *)

\* C35 (as stated): after any sequence of miss handling on one IC data
\* (the inline-cache miss handlers, MegamorphicCacheMissHandler returning
\* null followed by InstanceFunctionLookup through the getter path or the
\* noSuchMethod path), no two checks of the IC data have the same class-id
\* vector.
C35_Original ==
  \A i, j \in 1..Len(ic_data.checks) :
     ic_data.checks[i].class_ids = ic_data.checks[j].class_ids => i = j

-----------------------------------------------------------------------------
(* Claims about Instanceof and about tests with a bound error              *)

\* C36: Instanceof throws a type error iff the test fails and a bound error
\* was produced, and then it neither returns nor updates the cache; in every
\* other case (true, or false without bound error) it runs the cache update
\* with the computed result, false as well as true, and returns that
\* boolean.
C36_Instanceof ==
  [][ ret'.call.op = "Instanceof" =>
        LET c == ret'.call
            t == IsInstanceOf(c.instance, type_arguments[c.instance],
                              c.incoming)
            u == UpdateTypeTestCache(c.instance, c.instantiator, c.incoming,
                    t.result, c.cache_is_null, type_arguments,
                    canonical_type_arguments, cache)
        IN  /\ ret'.outcome = "throw" <=> (~t.result /\ t.bound_error)
            /\ ret'.outcome = "throw" =>
                  /\ ret'.error.bound_error_message = "bound error"
                  /\ ret'.error.src_type_name = SymbolsEmpty
                  /\ cache' = cache
                  /\ type_arguments' = type_arguments
            /\ ret'.outcome # "throw" =>
                  /\ ret'.outcome = "return"
                  /\ ret'.value = t.result
                  /\ cache' = u.cache
                  /\ type_arguments' = u.ta
                  /\ canonical_type_arguments' = u.canon ]_vars

\* C36 witness: an Instanceof that failed without a bound error returned
\* false and added a check whose result is false.
C36_Witness ==
  /\ ret.call.op = "Instanceof"
  /\ ret.outcome = "return"
  /\ ret.value = FALSE
  /\ ~ret.bound_error
  /\ Len(cache) = ret.entry.number_of_checks + 1
  /\ cache[Len(cache)].result = FALSE

\* C38 (as stated): no Instanceof or TypeCheck call in which IsInstanceOf
\* produced a bound error inserts an entry into the subtype-test cache,
\* whatever the boolean result.
C38_Original ==
  [][ ( /\ ret'.call.op \in {"Instanceof", "TypeCheck"}
        /\ IsInstanceOf(ret'.call.instance,
                        type_arguments[ret'.call.instance],
                        ret'.call.incoming).bound_error )
      => cache' = cache ]_vars

-----------------------------------------------------------------------------
(* Claims about the allocation entries                                     *)

\* The instance AllocateObject returned in the last call.
Allocated(op) ==
  /\ ret.call.op = op
  /\ ret.result.outcome = "return"

\* C32: every instance produced by AllocateObject has no type arguments
\* when its class is non-generic and otherwise a type-argument vector at
\* least as long as the class's declared number of type arguments: a vector
\* passed with kNoInstantiator that is null (a raw type) or long enough, or
\* the lazy pair stored when there is an instantiator.
C32_AllocateObject ==
  Allocated("AllocateObject") =>
    LET instance == ret.result.instance
        n == NumTypeArguments(instance.cls)
        v == instance.type_arguments
    IN  /\ instance.cls = ret.call.cls
        /\ n = 0 => IsNull(v)
        /\ (n > 0 /\ ret.call.instantiator = kNoInstantiator) =>
              /\ v = ret.call.type_arguments
              /\ IsNull(v) \/ Length(v) >= n
        /\ (n > 0 /\ ret.call.instantiator # kNoInstantiator) =>
              /\ v.kind = "lazy"
              /\ v.uninstantiated = ret.call.type_arguments
              /\ v.instantiator = ret.call.instantiator
              /\ Length(v) >= n

\* C32 witness: an instance of the class with two type arguments was given a
\* vector longer than the class needs, passed with kNoInstantiator.
C32_Witness ==
  /\ Allocated("AllocateObject")
  /\ ret.call.instantiator = kNoInstantiator
  /\ NumTypeArguments(ret.call.cls) = 2
  /\ Length(ret.result.instance.type_arguments) = 3

\* Whether AllocateObjectWithBoundsCheck threw as a bound error requires: a
\* call with an instantiator whose instantiation yields a bound error throws
\* a type error with the bound-error message at the caller's token position
\* and does not return, and no other call throws.
BoundErrorThrown ==
  LET r == ret.result
      with_instantiator ==
        ret.call.instantiator # kNoInstantiator /\ r.outcome # "assert"
  IN  /\ (with_instantiator /\ ret.call.bound_error # "null") =>
            /\ r.outcome = "throw"
            /\ r.error.location = ret.call.location
            /\ r.error.type_error.bound_error_message = ret.call.bound_error
      /\ r.outcome = "throw" =>
            with_instantiator /\ ret.call.bound_error # "null"

\* C33 (as stated): AllocateObjectWithBoundsCheck with an instantiator
\* instantiates the type arguments eagerly and throws on a bound error; on
\* every normal return the vector stored in the instance is null or
\* instantiated, never a lazy pair and never uninstantiated.
C33_Original ==
  ret.call.op = "AllocateObjectWithBoundsCheck" =>
    /\ BoundErrorThrown
    /\ ret.result.outcome = "return" =>
          LET v == ret.result.instance.type_arguments
          IN  IsNull(v) \/ (v.kind = "flat" /\ v.instantiated)

\* C33 (amended): AllocateObjectWithBoundsCheck with an instantiator
\* instantiates the type arguments eagerly.  If the instantiation yields a
\* bound error it throws a type error with the bound-error message at the
\* caller's token position and does not return; on every normal return the
\* vector stored in the instance is null or instantiated, never
\* uninstantiated, and when an instantiator was passed it is no lazy pair.
C33_BoundsCheck ==
  ret.call.op = "AllocateObjectWithBoundsCheck" =>
    /\ BoundErrorThrown
    /\ ret.result.outcome = "return" =>
          LET v == ret.result.instance.type_arguments
          IN  /\ IsNull(v) \/ IsInstantiated(v)
              /\ ret.call.instantiator # kNoInstantiator =>
                    /\ v.kind = "flat"
                    /\ v.instantiated
                    /\ Length(v) = Length(ret.call.type_arguments)

\* C33 witness: an allocation with an instantiator returned an instance with
\* a flat instantiated vector of two types.
C33_Witness ==
  /\ Allocated("AllocateObjectWithBoundsCheck")
  /\ ret.call.instantiator # kNoInstantiator
  /\ ~IsNull(ret.call.instantiator)
  /\ ret.result.instance.type_arguments.kind = "flat"
  /\ Length(ret.result.instance.type_arguments) = 2

====
